---- MODULE Spec2Model ----
(***************************************************************************)
(* Vulnerability reconciliation core: the entity model                     *)
(* (src/src/models/entities.py) and the cleaning / merge service           *)
(* (src/src/services/cleaner.py).                                          *)
(*                                                                         *)
(* Python values are represented as follows:                               *)
(*   str            a tuple of one-character strings, "" is << >>          *)
(*   Optional[T]    << >> for None, << x >> for a value x                  *)
(*   object         Package, Reference and CVSSMetrics instances live in   *)
(*                  heaps (id -> fields); a Vulnerability holds their ids, *)
(*                  so that two lists may hold the same object             *)
(*   dict (patch)   a record, held by value                                *)
(***************************************************************************)
EXTENDS Integers, Sequences, FiniteSets, TLC

VARIABLES
    vulns,      \* the Vulnerability objects of the list handed to the service
    vulns0,     \* the same list as it was when the record set was built
    pkgHeap,    \* Package objects: id -> fields
    refHeap,    \* Reference objects: id -> fields
    cvssHeap,   \* CVSSMetrics objects: id -> fields
    pc,         \* position of the caller: "ready", "returned", "raised", "cleaned"
    result,     \* what the last call returned or raised
    data,       \* the raw source record handed to a normalizer
    limiter     \* the RateLimiter object, the clock and the tasks that use it

vars == <<vulns, vulns0, pkgHeap, refHeap, cvssHeap, pc, result, data, limiter>>

\* ------------------------------------------------------------------ bounds
MaxLen == 3
MaxItems == 2

\* ------------------------------------------------------- Python primitives
None == << >>

Some(x) == << x >>

\* bool(x) of an Optional[str]: None and "" are falsy
Truthy(opt) == opt # None /\ opt[1] # << >>

\* bool(x) of an Optional[object] whose class defines no __bool__/__len__
Present(opt) == opt # None

Range(s) == { s[i] : i \in 1..Len(s) }

IsSpace(c) == c \in {" ", "\t", "\n"}

RECURSIVE LStrip(_)
LStrip(s) ==
    IF s = << >> THEN << >>
    ELSE IF IsSpace(Head(s)) THEN LStrip(Tail(s)) ELSE s

RECURSIVE RStrip(_)
RStrip(s) ==
    IF s = << >> THEN << >>
    ELSE IF IsSpace(s[Len(s)]) THEN RStrip(SubSeq(s, 1, Len(s) - 1)) ELSE s

\* str.strip()
Strip(s) == RStrip(LStrip(s))

\* str.rstrip('/')
RECURSIVE RStripSlash(_)
RStripSlash(s) ==
    IF s = << >> THEN << >>
    ELSE IF s[Len(s)] = "/" THEN RStripSlash(SubSeq(s, 1, Len(s) - 1)) ELSE s

LowerChar(c) ==
    CASE c = "A" -> "a"
      [] c = "B" -> "b"
      [] c = "N" -> "n"
      [] c = "F" -> "f"
      [] c = "P" -> "p"
      [] c = "V" -> "v"
      [] OTHER -> c

\* str.lower()
RECURSIVE Lower(_)
Lower(s) ==
    IF s = << >> THEN << >> ELSE <<LowerChar(Head(s))>> \o Lower(Tail(s))

\* str.startswith(prefix)
StartsWith(s, prefix) ==
    Len(s) >= Len(prefix) /\ SubSeq(s, 1, Len(prefix)) = prefix

\* every list that holds each element of the set S exactly once
Orderings(S) ==
    { q \in [1..Cardinality(S) -> S] : Range(q) = S }

\* ------------------------------------------------------------- entities
\* @dataclass Package
NewPackage(name) ==
    [name |-> name, ecosystem |-> None, platform |-> None,
     versions |-> << >>, affected_versions |-> << >>, fixed_versions |-> << >>]

\* @dataclass Version
NewVersion(version) ==
    [version |-> version, status |-> "unknown"]

\* @dataclass Reference
NewReference(url) ==
    [url |-> url, source |-> "unknown", type |-> "other", tags |-> << >>]

\* @dataclass CVSSMetrics
NewCVSSMetrics(version, base_score) ==
    [version |-> version, base_score |-> base_score]

RawKeys == {"cve", "advisory"}

\* the raw_data dict: key -> 0 when the key is absent, else its value
EmptyRaw == [k \in RawKeys |-> 0]

\* @dataclass Vulnerability
NewVulnerability(id, source) ==
    [id |-> id, source |-> source, title |-> None, description |-> None,
     published_date |-> None,
     last_modified_date |-> None, cvss_v3 |-> None, cvss_v2 |-> None,
     affected_packages |-> << >>, references |-> << >>, patches |-> << >>,
     notes |-> << >>, raw_data |-> EmptyRaw]

\* ------------------------------------------------- Vulnerability.merge
\* the incoming value adopted whenever the accumulator's is falsy, even when
\* the incoming value is falsy itself
MergeTextAdoptFalsy(self_text, other_text) ==
    IF ~Truthy(self_text) THEN other_text ELSE self_text

\* the incoming value adopted whenever it is truthy: the last source wins
MergeTextLastWins(self_text, other_text) ==
    IF Truthy(other_text) THEN other_text ELSE self_text

\* lines 157-160: a text field is adopted only when the accumulator's is falsy
MergeText(self_text, other_text) ==
    IF Truthy(other_text) /\ ~Truthy(self_text) THEN other_text ELSE self_text

\* lines 163-165: the later last_modified_date wins
MergeLastModified(self_date, other_date) ==
    IF Present(other_date)
       /\ (~Present(self_date) \/ other_date[1] > self_date[1])
    THEN other_date ELSE self_date

\* the incoming metric adopted whenever there is one: the last source wins
MergeCvssLastWins(self_cvss, other_cvss) ==
    IF Present(other_cvss) THEN other_cvss ELSE self_cvss

\* lines 168-171: a metric object is adopted only when the accumulator has none
MergeCvss(self_cvss, other_cvss) ==
    IF Present(other_cvss) /\ ~Present(self_cvss) THEN other_cvss ELSE self_cvss

\* lines 174-177: existing_packages is built once, before the loop, and the
\* loop never adds to it
MergeAffectedPackages(self_pkgs, other_pkgs, heap) ==
    LET existing_packages == { heap[p].name : p \in Range(self_pkgs) }
    IN self_pkgs \o SelectSeq(other_pkgs,
                              LAMBDA p : heap[p].name \notin existing_packages)

\* lines 180-184: existing_refs grows as references are appended
RECURSIVE MergeReferencesLoop(_, _, _, _)
MergeReferencesLoop(self_refs, existing_refs, other_refs, heap) ==
    IF other_refs = << >> THEN self_refs
    ELSE LET other_ref == Head(other_refs)
         IN IF heap[other_ref].url \notin existing_refs
            THEN MergeReferencesLoop(Append(self_refs, other_ref),
                                     existing_refs \cup {heap[other_ref].url},
                                     Tail(other_refs), heap)
            ELSE MergeReferencesLoop(self_refs, existing_refs,
                                     Tail(other_refs), heap)

\* existing_refs built once and never added to, as the package loop does
MergeReferencesStaleSet(self_refs, other_refs, heap) ==
    LET existing_refs == { heap[r].url : r \in Range(self_refs) }
    IN self_refs \o SelectSeq(other_refs,
                              LAMBDA r : heap[r].url \notin existing_refs)

MergeReferences(self_refs, other_refs, heap) ==
    MergeReferencesLoop(self_refs,
                        { heap[r].url : r \in Range(self_refs) },
                        other_refs, heap)

\* lines 187-190: existing_patches is built once, before the loop, and the
\* loop never adds to it
MergePatches(self_patches, other_patches) ==
    LET existing_patches == { self_patches[i].url : i \in 1..Len(self_patches) }
    IN self_patches \o SelectSeq(other_patches,
                                 LAMBDA patch : patch.url \notin existing_patches)

\* line 193: the comprehension is evaluated against self.notes as it was
MergeNotes(self_notes, other_notes) ==
    self_notes \o SelectSeq(other_notes,
                            LAMBDA note : note \notin Range(self_notes))

\* line 196: dict.update, the incoming keys overwrite
MergeRawData(self_raw, other_raw) ==
    [k \in RawKeys |-> IF other_raw[k] # 0 THEN other_raw[k] ELSE self_raw[k]]

\* the identity check left out
SameIdentityUnchecked(self, other) == TRUE

\* line 153: the identity check of merge
SameIdentity(self, other) == self.id = other.id

\* Vulnerability.merge(self, other): the accumulator after the call, and
\* whether the call raised ValueError
Merge(self, other, pkgs, refs) ==
    IF ~SameIdentity(self, other)
    THEN [raised |-> TRUE, self |-> self]
    ELSE [raised |-> FALSE,
          self |-> [self EXCEPT
              !.title = MergeText(self.title, other.title),
              !.description = MergeText(self.description, other.description),
              !.last_modified_date =
                  MergeLastModified(self.last_modified_date,
                                    other.last_modified_date),
              !.cvss_v3 = MergeCvss(self.cvss_v3, other.cvss_v3),
              !.cvss_v2 = MergeCvss(self.cvss_v2, other.cvss_v2),
              !.affected_packages =
                  MergeAffectedPackages(self.affected_packages,
                                        other.affected_packages, pkgs),
              !.references =
                  MergeReferences(self.references, other.references, refs),
              !.patches = MergePatches(self.patches, other.patches),
              !.notes = MergeNotes(self.notes, other.notes),
              !.raw_data = MergeRawData(self.raw_data, other.raw_data)]]

\* ------------------------------------- CleanerService.merge_vulnerabilities
\* lines 153-156: base.merge(vuln) for each later record; base is vulns[0]
\* itself, so whatever the loop did before an exception stays done
RECURSIVE MergeLoop(_, _, _, _)
MergeLoop(base, rest, pkgs, refs) ==
    IF rest = << >>
    THEN [kind |-> "return", msg |-> "", base |-> base]
    ELSE LET m == Merge(base, Head(rest), pkgs, refs)
         IN IF m.raised
            THEN [kind |-> "ValueError",
                  msg |-> "Cannot merge vulnerabilities with different IDs",
                  base |-> m.self]
            ELSE MergeLoop(m.self, Tail(rest), pkgs, refs)

\* line 146: "if not vulns"
EmptyList(vs) == vs = << >>

\* the empty list answered with no record instead of an error
merge_vulnerabilities_no_guard(vs, pkgs, refs) ==
    IF vs = << >>
    THEN [kind |-> "return", msg |-> "", base |-> None]
    ELSE MergeLoop(vs[1], Tail(vs), pkgs, refs)

merge_vulnerabilities(vs, pkgs, refs) ==
    IF EmptyList(vs)
    THEN [kind |-> "ValueError", msg |-> "Empty vulnerability list",
          base |-> None]
    ELSE MergeLoop(vs[1], Tail(vs), pkgs, refs)

\* the caller runs merge_vulnerabilities(vulns)
MergeVulnerabilities ==
    /\ pc = "ready"
    /\ LET r == merge_vulnerabilities(vulns, pkgHeap, refHeap)
       IN /\ vulns' = IF vulns = << >> THEN vulns
                      ELSE [vulns EXCEPT ![1] = r.base]
          /\ pc' = IF r.kind = "return" THEN "returned" ELSE "raised"
          /\ result' = [op |-> "merge_vulnerabilities", kind |-> r.kind,
                        msg |-> r.msg,
                        value |-> IF r.kind = "return" THEN <<1>> ELSE << >>]
    /\ UNCHANGED <<vulns0, pkgHeap, refHeap, cvssHeap, data, limiter>>

\* ---------------------------------------------- CleanerService.clean_package
\* lines 116-126: versions are trimmed and deduplicated by trimmed string
RECURSIVE CleanVersions(_, _)
CleanVersions(versions, seen_versions) ==
    IF versions = << >> THEN << >>
    ELSE LET ver == Head(versions)
             version == Strip(ver.version)
         IN IF version # << >> /\ version \notin seen_versions
            THEN <<[ver EXCEPT !.version = version]>>
                 \o CleanVersions(Tail(versions), seen_versions \cup {version})
            ELSE CleanVersions(Tail(versions), seen_versions)

\* lines 129 and 132: set(v.strip() for v in vs if v.strip())
StrippedSet(vs) == { Strip(vs[i]) : i \in 1..Len(vs) } \ { << >> }

\* the Package after clean_package; list(set(...)) fixes no order, so the
\* order of the two version lists is an input
CleanedPackage(pkg, affected, fixed) ==
    [pkg EXCEPT
        !.name = Lower(Strip(pkg.name)),
        !.ecosystem = IF Truthy(pkg.ecosystem)
                      THEN Some(Lower(Strip(pkg.ecosystem[1])))
                      ELSE pkg.ecosystem,
        !.versions = CleanVersions(pkg.versions, {}),
        !.affected_versions = affected,
        !.fixed_versions = fixed]

AfterMerge == pc \in {"returned", "raised", "cleaned"}

\* the caller runs clean_package on the j-th package of the k-th record
CleanPackage(k, j) ==
    /\ AfterMerge
    /\ k \in 1..Len(vulns)
    /\ j \in 1..Len(vulns[k].affected_packages)
    /\ LET p == vulns[k].affected_packages[j]
       IN \E affected \in Orderings(StrippedSet(pkgHeap[p].affected_versions)),
             fixed \in Orderings(StrippedSet(pkgHeap[p].fixed_versions)) :
             pkgHeap' = [pkgHeap EXCEPT
                            ![p] = CleanedPackage(pkgHeap[p], affected, fixed)]
    /\ pc' = "cleaned"
    /\ result' = [op |-> "clean_package", kind |-> "return", msg |-> "",
                  value |-> << >>]
    /\ UNCHANGED <<vulns, vulns0, refHeap, cvssHeap, data, limiter>>

\* ------------------------------------------- CleanerService.clean_references
Http == <<"h", "t", "t", "p", ":", "/", "/">>

Https == <<"h", "t", "t", "p", "s", ":", "/", "/">>

\* lines 83-85: trim, drop trailing slashes, default the scheme
NormalizeUrl(raw) ==
    LET url == RStripSlash(Strip(raw))
    IN IF StartsWith(url, Http) \/ StartsWith(url, Https)
       THEN url ELSE Https \o url

\* lines 77-94: the loop; it writes the normalized URL into each kept
\* Reference object and returns the kept objects
RECURSIVE CleanReferencesLoop(_, _, _, _)
CleanReferencesLoop(refs, seen_urls, cleaned_refs, heap) ==
    IF refs = << >> THEN [cleaned_refs |-> cleaned_refs, heap |-> heap]
    ELSE LET ref == Head(refs)
             url == NormalizeUrl(heap[ref].url)
         IN IF heap[ref].url = << >> \/ url \in seen_urls
            THEN CleanReferencesLoop(Tail(refs), seen_urls, cleaned_refs, heap)
            ELSE CleanReferencesLoop(Tail(refs), seen_urls \cup {url},
                                     Append(cleaned_refs, ref),
                                     [heap EXCEPT ![ref].url = url])

clean_references(refs, heap) == CleanReferencesLoop(refs, {}, << >>, heap)

\* the caller runs clean_references on the reference list of the k-th record
CleanReferences(k) ==
    /\ AfterMerge
    /\ k \in 1..Len(vulns)
    /\ LET r == clean_references(vulns[k].references, refHeap)
       IN /\ refHeap' = r.heap
          /\ result' = [op |-> "clean_references", kind |-> "return",
                        msg |-> "", value |-> r.cleaned_refs]
    /\ pc' = "cleaned"
    /\ UNCHANGED <<vulns, vulns0, pkgHeap, cvssHeap, data, limiter>>

\* --------------------------------------------------------- record sets
\* all lists over S of length at most m
SeqsUpTo(S, m) == UNION { [1..i -> S] : i \in 0..m }

Ids == {"CVE-1", "CVE-2"}

Sources == <<"NVD", "GitHub", "RedHat", "Debian">>

SourceOf(k) == Sources[((k - 1) % Len(Sources)) + 1]

TextVals == {None, Some(<< >>), Some(<<"x">>), Some(<<"y">>)}

PkgNames == {<<"a">>, <<"b">>}

Urls == {<<"u">>, <<"v">>}

\* the heap id of the j-th child object of the k-th record
ChildId(k, j) == (k - 1) * (MaxItems + 1) + j

OwnerOf(id) == ((id - 1) \div (MaxItems + 1)) + 1

IndexOf(id) == ((id - 1) % (MaxItems + 1)) + 1

ChildIds(k, n) == [j \in 1..n |-> ChildId(k, j)]

AllChildIds(lists) ==
    { ChildId(k, j) : k \in 1..Len(lists), j \in 1..(MaxItems + 1) }
    \cap UNION { { ChildId(k, j) : j \in 1..Len(lists[k]) } : k \in 1..Len(lists) }

EmptyHeap == [id \in {} |-> 0]

Ready ==
    /\ vulns0 = vulns
    /\ data = << >>
    /\ limiter = << >>
    /\ pc = "ready"
    /\ result = [op |-> "none", kind |-> "none", msg |-> "", value |-> << >>]

\* records that differ in id and title
InitIds ==
    /\ \E n \in 0..MaxLen :
       \E ids \in [1..n -> Ids], titles \in [1..n -> {None, Some(<<"x">>)}] :
          vulns = [k \in 1..n |->
                      [NewVulnerability(ids[k], SourceOf(k))
                          EXCEPT !.title = titles[k],
                                 !.last_modified_date = Some(k)]]
    /\ pkgHeap = EmptyHeap /\ refHeap = EmptyHeap /\ cvssHeap = EmptyHeap
    /\ Ready

\* records of one id that differ in title and description
InitText ==
    /\ \E n \in 0..MaxLen :
       \E titles \in [1..n -> TextVals], descs \in [1..n -> TextVals] :
          vulns = [k \in 1..n |->
                      [NewVulnerability("CVE-1", SourceOf(k))
                          EXCEPT !.title = titles[k],
                                 !.description = descs[k]]]
    /\ pkgHeap = EmptyHeap /\ refHeap = EmptyHeap /\ cvssHeap = EmptyHeap
    /\ Ready

\* records of one id, each with or without a v3 and a v2 metric object
InitCvss ==
    /\ \E n \in 0..MaxLen :
       \E has3 \in [1..n -> BOOLEAN], has2 \in [1..n -> BOOLEAN] :
          /\ vulns = [k \in 1..n |->
                      [NewVulnerability("CVE-1", SourceOf(k))
                          EXCEPT !.cvss_v3 = IF has3[k] THEN Some(ChildId(k, 1))
                                             ELSE None,
                                 !.cvss_v2 = IF has2[k] THEN Some(ChildId(k, 2))
                                             ELSE None]]
          /\ cvssHeap =
               [id \in { ChildId(k, 1) : k \in { i \in 1..n : has3[i] } }
                       \cup { ChildId(k, 2) : k \in { i \in 1..n : has2[i] } } |->
                   IF IndexOf(id) = 1
                   THEN NewCVSSMetrics("3.1", 10 * OwnerOf(id))
                   ELSE NewCVSSMetrics("2.0", 10 * OwnerOf(id) + 5)]
    /\ pkgHeap = EmptyHeap /\ refHeap = EmptyHeap
    /\ Ready

\* records of one id, each with its own Package objects
PackageRecords(pkgs) ==
    /\ vulns = [k \in 1..Len(pkgs) |->
                  [NewVulnerability("CVE-1", SourceOf(k))
                      EXCEPT !.affected_packages = ChildIds(k, Len(pkgs[k]))]]
    /\ pkgHeap = [id \in AllChildIds(pkgs) |-> pkgs[OwnerOf(id)][IndexOf(id)]]
    /\ refHeap = EmptyHeap /\ cvssHeap = EmptyHeap
    /\ Ready

\* records of one id, each with its own Reference objects
ReferenceRecords(refs) ==
    /\ vulns = [k \in 1..Len(refs) |->
                  [NewVulnerability("CVE-1", SourceOf(k))
                      EXCEPT !.references = ChildIds(k, Len(refs[k]))]]
    /\ refHeap = [id \in AllChildIds(refs) |-> refs[OwnerOf(id)][IndexOf(id)]]
    /\ pkgHeap = EmptyHeap /\ cvssHeap = EmptyHeap
    /\ Ready

InitPackages ==
    \E n \in 0..MaxLen :
    \E names \in [1..n -> SeqsUpTo(PkgNames, MaxItems)] :
       PackageRecords([k \in 1..n |->
                          [j \in 1..Len(names[k]) |-> NewPackage(names[k][j])]])

InitReferences ==
    \E n \in 0..MaxLen :
    \E urls \in [1..n -> SeqsUpTo(Urls, MaxItems)] :
       ReferenceRecords([k \in 1..n |->
                            [j \in 1..Len(urls[k]) |-> NewReference(urls[k][j])]])

\* records of one id with patch entries; the name tells the entries apart
InitPatches ==
    /\ \E n \in 0..MaxLen :
       \E urls \in [1..n -> SeqsUpTo(Urls, MaxItems)] :
          vulns = [k \in 1..n |->
                      [NewVulnerability("CVE-1", SourceOf(k))
                          EXCEPT !.patches =
                              [j \in 1..Len(urls[k]) |->
                                  [name |-> <<k, j>>, url |-> urls[k][j]]]]]
    /\ pkgHeap = EmptyHeap /\ refHeap = EmptyHeap /\ cvssHeap = EmptyHeap
    /\ Ready

\* Package objects as a collector leaves them, before any cleaning
RawPackages ==
    { [NewPackage(<<" ", "A">>) EXCEPT
          !.ecosystem = Some(<<"N", " ">>),
          !.versions = <<NewVersion(<<"1", " ">>), NewVersion(<<"1">>)>>,
          !.affected_versions = <<<<"1">>, <<" ", "1">>, <<"2">>>>,
          !.fixed_versions = <<<<" ">>>>],
      NewPackage(<<"a">>),
      [NewPackage(<<"b", " ">>) EXCEPT !.affected_versions = <<<<"1">>>>] }

\* reference URLs as a collector leaves them
RawUrls == { <<"a", "/">>, Http \o <<"a">>, Https \o <<"a">> }

\* two records of one id with uncleaned packages
InitRawPackages ==
    \E first \in SeqsUpTo(RawPackages, 1),
       second \in SeqsUpTo(RawPackages, MaxItems) :
       PackageRecords(<<first, second>>)

\* two records of one id with uncleaned references
InitRawReferences ==
    \E first \in SeqsUpTo(RawUrls, 1), second \in SeqsUpTo(RawUrls, MaxItems) :
       ReferenceRecords(<<[j \in 1..Len(first) |-> NewReference(first[j])],
                          [j \in 1..Len(second) |-> NewReference(second[j])]>>)

\* the record sets handed to merge_vulnerabilities
Init ==
    \/ InitIds
    \/ InitText
    \/ InitCvss
    \/ InitPackages
    \/ InitReferences
    \/ InitPatches

Next == MergeVulnerabilities

Spec == Init /\ [][Next]_vars

\* uncleaned record pairs: merged, and their children cleaned afterwards
InitRaw ==
    \/ InitRawPackages
    \/ InitRawReferences

NextRaw ==
    \/ MergeVulnerabilities
    \/ \E k \in 1..2, j \in 1..(MaxItems + 1) : CleanPackage(k, j)
    \/ \E k \in 1..2 : CleanReferences(k)

SpecRaw == InitRaw /\ [][NextRaw]_vars

\* ------------------------------------------------------------ properties
Called == pc # "ready"

Returned == pc = "returned"

Raised == pc = "raised" /\ result.kind = "ValueError"

\* the accumulator after the first k records of the list have been merged
Acc(k) == merge_vulnerabilities(SubSeq(vulns0, 1, k), pkgHeap, refHeap).base

\* C1: whenever merge_vulnerabilities fails, every field of the first record
\* has the value it had before the call.
C1_AllOrNothing ==
    (pc = "raised" /\ vulns0 # << >>) => vulns[1] = vulns0[1]

\* C2: merge_vulnerabilities raises the identity-mismatch ValueError whenever
\* two records of the list differ in id, wherever the differing record stands,
\* and returns no record.
C2_IdentityMismatch ==
    (Called /\ \E i, j \in 1..Len(vulns0) : vulns0[i].id # vulns0[j].id)
    => /\ Raised
       /\ result.msg = "Cannot merge vulnerabilities with different IDs"
       /\ result.value = None

\* a three-record call whose third record alone differs has raised
C2_Witness ==
    /\ Raised
    /\ Len(vulns0) = 3
    /\ vulns0[1].id = vulns0[2].id
    /\ vulns0[3].id # vulns0[1].id

\* C3: merge_vulnerabilities of the empty list raises the empty-list ValueError
\* and returns no record.
C3_EmptyMergeSet ==
    (Called /\ vulns0 = << >>)
    => /\ Raised
       /\ result.msg = "Empty vulnerability list"
       /\ result.value = None

\* the call with the empty list has been made
C3_Witness == Called /\ vulns0 = << >> /\ result.op = "merge_vulnerabilities"

\* merge_vulnerabilities([b, a]) for the two-record list [a, b] of the call
Swapped ==
    merge_vulnerabilities(<<vulns0[2], vulns0[1]>>, pkgHeap, refHeap).base

\* the two orders of a text field agree when exactly one value is non-empty
\* or both are the same value
OrderFree(a_text, b_text) ==
    \/ a_text = b_text
    \/ Truthy(a_text) # Truthy(b_text)

\* two text values are the same, None and "" both counting as empty
SameText(x, y) == x = y \/ (~Truthy(x) /\ ~Truthy(y))

\* C4 as stated: for two records a, b of one id, merge([a, b]) and
\* merge([b, a]) have the same id, title and description, whatever the titles
\* and descriptions are (None and "" are read as the same empty value).
C4_OrderIndependent ==
    (Returned /\ Len(vulns0) = 2)
    => /\ vulns[1].id = Swapped.id
       /\ SameText(vulns[1].title, Swapped.title)
       /\ SameText(vulns[1].description, Swapped.description)

\* C4 amended: the id is the same in both orders; the title (description) is
\* the same in both orders when exactly one of the two values is non-empty or
\* both are equal, and otherwise each order keeps its own first record's value.
C4_OrderIndependentAmended ==
    (Returned /\ Len(vulns0) = 2)
    => LET a == vulns0[1]
           b == vulns0[2]
       IN /\ vulns[1].id = Swapped.id
          /\ IF OrderFree(a.title, b.title)
             THEN vulns[1].title = Swapped.title
             ELSE /\ vulns[1].title = a.title
                  /\ Swapped.title = b.title
                  /\ vulns[1].title # Swapped.title
          /\ IF OrderFree(a.description, b.description)
             THEN vulns[1].description = Swapped.description
             ELSE /\ vulns[1].description = a.description
                  /\ Swapped.description = b.description
                  /\ vulns[1].description # Swapped.description

\* a pair merged whose titles are both non-empty and different, and of whose
\* descriptions only the second is non-empty
C4_Witness ==
    /\ Returned
    /\ Len(vulns0) = 2
    /\ Truthy(vulns0[1].title) /\ Truthy(vulns0[2].title)
    /\ vulns0[1].title # vulns0[2].title
    /\ ~Truthy(vulns0[1].description) /\ Truthy(vulns0[2].description)
    /\ vulns[1].description = vulns0[2].description

\* the first non-empty value of a list of Optional[str], None when there is none
RECURSIVE FirstTruthy(_)
FirstTruthy(texts) ==
    IF texts = << >> THEN None
    ELSE IF Truthy(Head(texts)) THEN Head(texts)
    ELSE FirstTruthy(Tail(texts))

FirstTruthyHolds(merged, texts) ==
    IF Truthy(FirstTruthy(texts)) THEN merged = FirstTruthy(texts)
    ELSE ~Truthy(merged)

\* C5: the merged title and description are each the value of the first record
\* in list order whose value is non-empty, or empty when no record has one; no
\* merge step replaces a non-empty accumulator value.
C5_FirstNonEmptyText ==
    Returned
    => LET n == Len(vulns0)
       IN /\ FirstTruthyHolds(vulns[1].title,
                              [k \in 1..n |-> vulns0[k].title])
          /\ FirstTruthyHolds(vulns[1].description,
                              [k \in 1..n |-> vulns0[k].description])
          /\ vulns[1].title = Acc(n).title
          /\ vulns[1].description = Acc(n).description
          /\ \A k \in 1..(n - 1) :
                /\ Truthy(Acc(k).title) => Acc(k + 1).title = Acc(k).title
                /\ Truthy(Acc(k).description)
                   => Acc(k + 1).description = Acc(k).description

\* three records merged: the first has no title, the second and the third
\* have different ones, and the second one's is kept
C5_Witness ==
    /\ Returned
    /\ Len(vulns0) = 3
    /\ ~Truthy(vulns0[1].title)
    /\ Truthy(vulns0[2].title) /\ Truthy(vulns0[3].title)
    /\ vulns0[2].title # vulns0[3].title
    /\ vulns[1].title = vulns0[2].title

\* the first metric of a list of Optional[CVSSMetrics], None when there is none
RECURSIVE FirstPresent(_)
FirstPresent(metrics) ==
    IF metrics = << >> THEN None
    ELSE IF Present(Head(metrics)) THEN Head(metrics)
    ELSE FirstPresent(Tail(metrics))

\* C6: a merge leaves in cvss_v3 the metric object of the first record in list
\* order that has one (none if no record has), likewise and independently in
\* cvss_v2, and changes no metric object.
C6_FirstCvssWins ==
    [][(pc = "ready" /\ pc' = "returned")
       => LET n == Len(vulns)
          IN /\ vulns'[1].cvss_v3
                  = FirstPresent([k \in 1..n |-> vulns[k].cvss_v3])
             /\ vulns'[1].cvss_v2
                  = FirstPresent([k \in 1..n |-> vulns[k].cvss_v2])
             /\ cvssHeap' = cvssHeap
             /\ \A k \in 2..n : vulns'[k] = vulns[k]]_vars

\* three records merged: the first has no v3 metric, the second and the third
\* have one each; the first and the third have a v2 metric
C6_Witness ==
    /\ Returned
    /\ Len(vulns0) = 3
    /\ ~Present(vulns0[1].cvss_v3)
    /\ Present(vulns0[2].cvss_v3) /\ Present(vulns0[3].cvss_v3)
    /\ Present(vulns0[1].cvss_v2) /\ Present(vulns0[3].cvss_v2)
    /\ vulns[1].cvss_v3 = vulns0[2].cvss_v3
    /\ vulns[1].cvss_v2 = vulns0[1].cvss_v2

PackageNames(pkgs, heap) == [j \in 1..Len(pkgs) |-> heap[pkgs[j]].name]

ReferenceUrls(refs, heap) == [j \in 1..Len(refs) |-> heap[refs[j]].url]

PatchUrls(patches) == [j \in 1..Len(patches) |-> patches[j].url]

\* no value occurs twice in the list
Unique(s) == \A i, j \in 1..Len(s) : s[i] = s[j] => i = j

\* C7: after a merge of same-id records whose first record has no two packages
\* of one name, no two entries of the result's affected_packages have the
\* same name.
C7_UniquePackageNames ==
    (Returned /\ Unique(PackageNames(vulns0[1].affected_packages, pkgHeap)))
    => Unique(PackageNames(vulns[1].affected_packages, pkgHeap))

\* C8: each merge step leaves the accumulator's references in place and in
\* order, and appends the incoming references whose URL was not yet present,
\* each such URL once and in incoming order; it adds no duplicate URL.
C8_ReferenceUnion ==
    Returned
    => /\ vulns[1].references = Acc(Len(vulns0)).references
       /\ \A k \in 1..(Len(vulns0) - 1) :
             LET before == Acc(k).references
                 incoming == vulns0[k + 1].references
                 after == Acc(k + 1).references
                 added == SubSeq(after, Len(before) + 1, Len(after))
                 known == Range(ReferenceUrls(before, refHeap))
                 fresh == Range(ReferenceUrls(incoming, refHeap)) \ known
             IN /\ Len(after) >= Len(before)
                /\ SubSeq(after, 1, Len(before)) = before
                /\ Range(ReferenceUrls(added, refHeap)) = fresh
                /\ Unique(ReferenceUrls(added, refHeap))
                /\ added = SelectSeq(incoming, LAMBDA r : r \in Range(added))
                /\ Unique(ReferenceUrls(before, refHeap))
                   => Unique(ReferenceUrls(after, refHeap))

\* a merge whose incoming record lists one new URL twice and one known URL
C8_Witness ==
    /\ Returned
    /\ Len(vulns0) = 3
    /\ ReferenceUrls(vulns0[1].references, refHeap) = <<<<"u">>>>
    /\ ReferenceUrls(vulns0[2].references, refHeap) = <<<<"v">>, <<"v">>>>
    /\ ReferenceUrls(vulns0[3].references, refHeap) = <<<<"u">>, <<"v">>>>
    /\ vulns[1].references
         = <<vulns0[1].references[1], vulns0[2].references[1]>>

\* C9: after a merge of same-id records whose first record has no two patches
\* of one URL, every URL occurs at most once in the result's patches.
C9_UniquePatchUrls ==
    (Returned /\ Unique(PatchUrls(vulns0[1].patches)))
    => Unique(PatchUrls(vulns[1].patches))

\* a Vulnerability with the fields of its child objects in place of their ids
Deep(v, pkgs, refs, cvss) ==
    [v EXCEPT
        !.affected_packages =
            [j \in 1..Len(v.affected_packages) |-> pkgs[v.affected_packages[j]]],
        !.references = [j \in 1..Len(v.references) |-> refs[v.references[j]]],
        !.cvss_v3 = IF Present(v.cvss_v3) THEN Some(cvss[v.cvss_v3[1]]) ELSE None,
        !.cvss_v2 = IF Present(v.cvss_v2) THEN Some(cvss[v.cvss_v2[1]]) ELSE None]

\* C10: after a merge, clean_package or clean_references run on a child of an
\* incoming record leaves every field of the merged record unchanged.
C10_NoSharedChildren ==
    [][\A k \in 2..Len(vulns) :
          (/\ pc \in {"returned", "cleaned"}
           /\ \/ \E j \in 1..Len(vulns[k].affected_packages) : CleanPackage(k, j)
              \/ CleanReferences(k))
          => Deep(vulns'[1], pkgHeap', refHeap', cvssHeap')
               = Deep(vulns[1], pkgHeap, refHeap, cvssHeap)]_vars

\* ------------------------------------------ CleanerService.clean_description
\* the index of the first ">" of s at or after position i, 0 when there is none
RECURSIVE FirstClose(_, _)
FirstClose(s, i) ==
    IF i > Len(s) THEN 0
    ELSE IF s[i] = ">" THEN i ELSE FirstClose(s, i + 1)

\* line 54: re.sub(r'<[^>]+>', '', desc); "<>" is no tag
RECURSIVE StripTags(_)
StripTags(s) ==
    IF s = << >> THEN << >>
    ELSE LET close == FirstClose(s, 2)
         IN IF Head(s) = "<" /\ close > 2
            THEN StripTags(SubSeq(s, close + 1, Len(s)))
            ELSE <<Head(s)>> \o StripTags(Tail(s))

\* the length of the run of non-whitespace characters s starts with
RECURSIVE WordLen(_)
WordLen(s) ==
    IF s = << >> \/ IsSpace(Head(s)) THEN 0 ELSE 1 + WordLen(Tail(s))

\* line 57: ' '.join(desc.split())
RECURSIVE CollapseSpaces(_)
CollapseSpaces(s) ==
    LET t == LStrip(s)
        n == WordLen(t)
        rest == LStrip(SubSeq(t, n + 1, Len(t)))
    IN IF t = << >> THEN << >>
       ELSE IF rest = << >> THEN SubSeq(t, 1, n)
       ELSE SubSeq(t, 1, n) \o <<" ">> \o CollapseSpaces(rest)

\* str.isprintable() of one character; "NUL" stands for U+0000
IsPrintable(c) == c \notin {"NUL", "\t", "\n"}

\* line 60: the non-printable characters are dropped after the whitespace
\* has been collapsed
DropNonPrintable(s) == SelectSeq(s, IsPrintable)

\* lines 50-62
clean_description(desc) ==
    IF ~Truthy(desc) THEN None
    ELSE Some(DropNonPrintable(CollapseSpaces(StripTags(desc[1]))))

\* ------------------------------------------ CleanerService.clean_vulnerability
\* lines 175-178: clean_package on each package in turn; the heaps the calls
\* can leave, one for each order list(set(...)) can produce
RECURSIVE CleanPackagesOutcomes(_, _)
CleanPackagesOutcomes(pkgs, heap) ==
    IF pkgs = << >> THEN {heap}
    ELSE LET p == Head(pkgs)
         IN UNION {
              CleanPackagesOutcomes(
                  Tail(pkgs),
                  [heap EXCEPT ![p] = CleanedPackage(heap[p], o[1], o[2])]) :
              o \in Orderings(StrippedSet(heap[p].affected_versions))
                    \X Orderings(StrippedSet(heap[p].fixed_versions)) }

\* lines 181-190: patches deduplicated by trimmed URL, entries with no URL dropped
RECURSIVE CleanPatches(_, _)
CleanPatches(patches, seen_urls) ==
    IF patches = << >> THEN << >>
    ELSE LET patch == Head(patches)
             url == Strip(patch.url)
         IN IF url # << >> /\ url \notin seen_urls
            THEN <<patch>> \o CleanPatches(Tail(patches), seen_urls \cup {url})
            ELSE CleanPatches(Tail(patches), seen_urls)

\* line 193
RECURSIVE CleanNotes(_)
CleanNotes(notes) ==
    IF notes = << >> THEN << >>
    ELSE IF Strip(Head(notes)) # << >>
    THEN <<Strip(Head(notes))>> \o CleanNotes(Tail(notes))
    ELSE CleanNotes(Tail(notes))

\* the caller runs clean_vulnerability on the k-th record
CleanVulnerability(k) ==
    /\ k \in 1..Len(vulns)
    /\ LET r == clean_references(vulns[k].references, refHeap)
       IN /\ refHeap' = r.heap
          /\ vulns' = [vulns EXCEPT
                 ![k].description = clean_description(vulns[k].description),
                 ![k].references = r.cleaned_refs,
                 ![k].patches = CleanPatches(vulns[k].patches, {}),
                 ![k].notes = CleanNotes(vulns[k].notes)]
    /\ \E heap \in CleanPackagesOutcomes(vulns[k].affected_packages, pkgHeap) :
          pkgHeap' = heap
    /\ pc' = "cleaned"
    /\ result' = [op |-> "clean_vulnerability", kind |-> "return", msg |-> "",
                  value |-> <<k>>]
    /\ UNCHANGED <<vulns0, cvssHeap, data, limiter>>

\* ------------------------------------------------- records to be cleaned
MaxDescLen == 4

DescChars == {"a", " ", "<", ">", "NUL"}

ExampleUrl ==
    <<"e", "x", "a", "m", "p", "l", "e", ".", "c", "o", "m", "/", "a">>

\* reference URLs before cleaning
DirtyUrls ==
    RawUrls \cup { <<"a", " ", "/">>, <<"/">>, ExampleUrl, Http \o ExampleUrl }

DirtyNotes == { <<"n">>, <<" ", "n">>, <<" ">> }

\* one record with any description over DescChars
InitDescription ==
    /\ \E desc \in {None} \cup { Some(d) : d \in SeqsUpTo(DescChars, MaxDescLen) } :
          vulns = <<[NewVulnerability("CVE-1", "NVD")
                        EXCEPT !.description = desc]>>
    /\ pkgHeap = EmptyHeap /\ refHeap = EmptyHeap /\ cvssHeap = EmptyHeap
    /\ Ready

\* one record with uncleaned references
InitDirtyReferences ==
    \E urls \in SeqsUpTo(DirtyUrls, MaxItems) :
       ReferenceRecords(<<[j \in 1..Len(urls) |-> NewReference(urls[j])]>>)

\* one record with uncleaned packages
InitDirtyPackages ==
    \E pkgs \in SeqsUpTo(RawPackages, MaxItems) : PackageRecords(<<pkgs>>)

\* one record with uncleaned patches and notes
InitDirtyPatches ==
    /\ \E urls \in SeqsUpTo({<<"u">>, <<"u", " ">>, <<" ">>}, MaxItems),
          notes \in SeqsUpTo(DirtyNotes, MaxItems) :
          vulns = <<[NewVulnerability("CVE-1", "NVD")
                        EXCEPT !.patches = [j \in 1..Len(urls) |->
                                               [name |-> <<1, j>>, url |-> urls[j]]],
                               !.notes = notes]>>
    /\ pkgHeap = EmptyHeap /\ refHeap = EmptyHeap /\ cvssHeap = EmptyHeap
    /\ Ready

InitClean ==
    \/ InitDescription
    \/ InitDirtyReferences
    \/ InitDirtyPackages
    \/ InitDirtyPatches

NextClean == CleanVulnerability(1)

SpecClean == InitClean /\ [][NextClean]_vars

\* a Package with its two version lists read as sets
PackageView(pkg) ==
    [pkg EXCEPT !.affected_versions = Range(pkg.affected_versions),
                !.fixed_versions = Range(pkg.fixed_versions)]

\* every field of a record, child objects by value
CleanView(v, pkgs, refs) ==
    [v EXCEPT
        !.affected_packages =
            [j \in 1..Len(v.affected_packages) |->
                PackageView(pkgs[v.affected_packages[j]])],
        !.references = [j \in 1..Len(v.references) |-> refs[v.references[j]]]]

\* C11: clean_vulnerability is idempotent: applied to a record it has already
\* cleaned, it changes no field (the order list(set(...)) gives the two
\* version lists of a package is not counted as a change).
C11_CleanIdempotent ==
    [][(result.op = "clean_vulnerability" /\ result'.op = "clean_vulnerability")
       => CleanView(vulns'[1], pkgHeap', refHeap')
            = CleanView(vulns[1], pkgHeap, refHeap)]_vars

\* C12: cleaning the references ["example.com/a", "http://example.com/a"]
\* leaves exactly one reference, the first of the two, whose URL is
\* https://example.com/a.
C12_SchemeDedupe ==
    [][(/\ pc = "ready"
        /\ ReferenceUrls(vulns[1].references, refHeap) = <<ExampleUrl, Http \o ExampleUrl>>
        /\ result'.op = "clean_vulnerability")
       => /\ vulns'[1].references = <<vulns[1].references[1]>>
          /\ ReferenceUrls(vulns'[1].references, refHeap') = <<Https \o ExampleUrl>>]_vars

\* ------------------------------------------ AnalyzerService.assess_risk
\* database.py 361-380: the records linked to the package of that name, each
\* rebuilt from its stored form
RECURSIVE get_affected_packages(_, _, _)
get_affected_packages(db, package_name, pkgs) ==
    IF db = << >> THEN << >>
    ELSE LET v == Head(db)
             rest == get_affected_packages(Tail(db), package_name, pkgs)
         IN IF \E j \in 1..Len(v.affected_packages) :
                  pkgs[v.affected_packages[j]].name = package_name
            THEN <<v>> \o rest
            ELSE rest

\* entities.py 57-60: Package.is_affected
is_affected(pkg, version) == version \in Range(pkg.affected_versions)

\* analyzer.py 396-398: the record appended once for every package entry of
\* that name the version affects
RECURSIVE VersionMatches(_, _, _, _, _)
VersionMatches(v, entries, package_name, version, pkgs) ==
    IF entries = << >> THEN << >>
    ELSE LET pkg == pkgs[Head(entries)]
             rest == VersionMatches(v, Tail(entries), package_name, version, pkgs)
         IN IF pkg.name = package_name /\ is_affected(pkg, version)
            THEN <<v>> \o rest
            ELSE rest

\* analyzer.py 394-400
RECURSIVE VersionVulns(_, _, _, _)
VersionVulns(vs, package_name, version, pkgs) ==
    IF vs = << >> THEN << >>
    ELSE VersionMatches(Head(vs), Head(vs).affected_packages,
                        package_name, version, pkgs)
         \o VersionVulns(Tail(vs), package_name, version, pkgs)

\* analyzer.py 411-416: the first record is taken, a later one only when both
\* dates are set and its date is later
LatestVuln(latest_vuln, vuln) ==
    IF \/ ~Present(latest_vuln)
       \/ /\ Present(vuln.published_date)
          /\ Present(latest_vuln[1].published_date)
          /\ vuln.published_date[1] > latest_vuln[1].published_date[1]
    THEN Some(vuln)
    ELSE latest_vuln

\* analyzer.py 419-423
IsFixed(vuln, package_name, pkgs) ==
    \E j \in 1..Len(vuln.affected_packages) :
       /\ pkgs[vuln.affected_packages[j]].name = package_name
       /\ pkgs[vuln.affected_packages[j]].fixed_versions # << >>

\* analyzer.py 431-435: the v3 base score, else the v2 base score, else 0
VulnScore(vuln, cvss) ==
    IF Present(vuln.cvss_v3) THEN cvss[vuln.cvss_v3[1]].base_score
    ELSE IF Present(vuln.cvss_v2) THEN cvss[vuln.cvss_v2[1]].base_score
    ELSE 0

Max(a, b) == IF a >= b THEN a ELSE b

\* analyzer.py 403-438: the loop over the records
RECURSIVE AssessLoop(_, _, _, _, _)
AssessLoop(vs, acc, package_name, pkgs, cvss) ==
    IF vs = << >> THEN acc
    ELSE LET vuln == Head(vs)
             fixed == IsFixed(vuln, package_name, pkgs)
             score == VulnScore(vuln, cvss)
         IN AssessLoop(
              Tail(vs),
              [total_score |-> acc.total_score + score,
               max_score |-> Max(acc.max_score, score),
               active_count |-> acc.active_count + (IF fixed THEN 0 ELSE 1),
               fixed_count |-> acc.fixed_count + (IF fixed THEN 1 ELSE 0),
               latest_vuln |-> LatestVuln(acc.latest_vuln, vuln)],
              package_name, pkgs, cvss)

\* base scores are held in tenths: 7.0 and 4.0
HighScore == 70

MediumScore == 40

\* the level with 7.0 itself read as medium
RiskLevelAboveOnly(total_score, n) ==
    IF n = 0 THEN "unknown"
    ELSE IF total_score > HighScore * n THEN "high"
    ELSE IF total_score >= MediumScore * n THEN "medium"
    ELSE IF total_score > 0 THEN "low"
    ELSE "unknown"

\* analyzer.py 441-451: the level of risk_score = total_score / len(vulns)
RiskLevel(total_score, n) ==
    IF n = 0 THEN "unknown"
    ELSE IF total_score >= HighScore * n THEN "high"
    ELSE IF total_score >= MediumScore * n THEN "medium"
    ELSE IF total_score > 0 THEN "low"
    ELSE "unknown"

\* analyzer.py 454-473
Recommendation(risk_level) ==
    CASE risk_level = "high" ->
           "Immediate action recommended. Update to the latest version or implement security controls."
      [] risk_level = "medium" ->
           "Update recommended. Review and patch vulnerabilities based on your security policy."
      [] risk_level = "low" ->
           "Monitor for updates. Update during your regular maintenance window."
      [] OTHER ->
           "No known vulnerabilities. Continue monitoring for new security advisories."

\* round(x, 2) of x = num / (10 * den), in hundredths, ties to even
Round2(num, den) ==
    LET q == (10 * num) \div den
        r == (10 * num) % den
    IN IF 2 * r > den \/ (2 * r = den /\ q % 2 = 1) THEN q + 1 ELSE q

\* analyzer.py 367-483
assess_risk(db, package_name, version, pkgs, cvss) ==
    LET found == get_affected_packages(db, package_name, pkgs)
        vs == IF Truthy(version)
              THEN VersionVulns(found, package_name, version[1], pkgs)
              ELSE found
        acc == AssessLoop(vs,
                          [total_score |-> 0, max_score |-> 0, active_count |-> 0,
                           fixed_count |-> 0, latest_vuln |-> None],
                          package_name, pkgs, cvss)
    IN IF found = << >>
       THEN [risk_level |-> "unknown", risk_score |-> 0,
             active_vulnerabilities |-> 0, fixed_vulnerabilities |-> 0,
             latest_vulnerability |-> None,
             recommendation |-> "No known vulnerabilities"]
       ELSE [risk_level |-> RiskLevel(acc.total_score, Len(vs)),
             risk_score |-> IF vs = << >> THEN 0
                            ELSE Round2(acc.total_score, Len(vs)),
             max_cvss_score |-> 10 * acc.max_score,
             active_vulnerabilities |-> acc.active_count,
             fixed_vulnerabilities |-> acc.fixed_count,
             latest_vulnerability |-> IF Present(acc.latest_vuln)
                                      THEN Some(acc.latest_vuln[1].id)
                                      ELSE None,
             recommendation |->
                 Recommendation(RiskLevel(acc.total_score, Len(vs)))]

RiskVersions == {None, Some(<<"1">>)}

\* the caller asks for the risk of a package, with or without a version
AssessRisk ==
    \E package_name \in PkgNames, version \in RiskVersions :
       /\ result' = [op |-> "assess_risk", kind |-> "return", msg |-> "",
                     value |-> assess_risk(vulns, package_name, version,
                                           pkgHeap, cvssHeap),
                     args |-> <<package_name, version>>]
       /\ pc' = "assessed"
       /\ UNCHANGED <<vulns, vulns0, pkgHeap, refHeap, cvssHeap, data, limiter>>

\* ------------------------------------------------- records in the database
VulnIds == <<"CVE-1", "CVE-2", "CVE-3", "CVE-4", "CVE-5">>

\* base scores in tenths
V3Scores == {None, Some(0), Some(50), Some(90)}

V2Scores == {None, Some(40)}

Dates == {None, Some(1), Some(2)}

\* the package "a", affected in version "1", with no fix
AffectedPackage ==
    [NewPackage(<<"a">>) EXCEPT !.affected_versions = << <<"1">> >>]

\* package entries: "a" affected by version "1" or not, fixed or not, and "b"
RiskPackages ==
    { [NewPackage(<<"a">>) EXCEPT !.affected_versions = av, !.fixed_versions = fv] :
        av \in {<< >>, << <<"1">> >>}, fv \in {<< >>, << <<"2">> >>} }
    \cup { [NewPackage(<<"b">>) EXCEPT !.affected_versions = << <<"1">> >>] }

\* stored records with distinct ids, each with its own child objects
RiskRecords(pkgs, v3, v2, dates) ==
    /\ vulns = [k \in 1..Len(pkgs) |->
                  [NewVulnerability(VulnIds[k], SourceOf(k))
                      EXCEPT !.published_date = dates[k],
                             !.cvss_v3 = IF Present(v3[k]) THEN Some(ChildId(k, 1))
                                         ELSE None,
                             !.cvss_v2 = IF Present(v2[k]) THEN Some(ChildId(k, 2))
                                         ELSE None,
                             !.affected_packages = ChildIds(k, Len(pkgs[k]))]]
    /\ pkgHeap = [id \in AllChildIds(pkgs) |-> pkgs[OwnerOf(id)][IndexOf(id)]]
    /\ cvssHeap =
         [id \in { ChildId(k, 1) : k \in { i \in 1..Len(pkgs) : Present(v3[i]) } }
                 \cup { ChildId(k, 2) : k \in { i \in 1..Len(pkgs) : Present(v2[i]) } } |->
             IF IndexOf(id) = 1
             THEN NewCVSSMetrics("3.1", v3[OwnerOf(id)][1])
             ELSE NewCVSSMetrics("2.0", v2[OwnerOf(id)][1])]
    /\ refHeap = EmptyHeap
    /\ Ready

\* records of package "a" that differ in their scores
InitRiskScores ==
    \E n \in 0..MaxLen :
       \E v3 \in [1..n -> V3Scores], v2 \in [1..n -> V2Scores] :
          RiskRecords([k \in 1..n |-> <<AffectedPackage>>], v3, v2,
                      [k \in 1..n |-> None])

\* records of package "a" that differ in their publication dates
InitRiskDates ==
    \E n \in 0..MaxLen :
       \E dates \in [1..n -> Dates] :
          RiskRecords([k \in 1..n |-> <<AffectedPackage>>],
                      [k \in 1..n |-> None], [k \in 1..n |-> None], dates)

\* one or two records that differ in their package entries
InitRiskPackages ==
    \E n \in 1..2 :
       \E pkgs \in [1..n -> SeqsUpTo(RiskPackages, MaxItems)] :
          RiskRecords(pkgs, [k \in 1..n |-> None], [k \in 1..n |-> None],
                      [k \in 1..n |-> None])

InitRisk ==
    \/ InitRiskScores
    \/ InitRiskDates
    \/ InitRiskPackages

NextRisk == AssessRisk

SpecRisk == InitRisk /\ [][NextRisk]_vars

\* ------------------------------------------------- properties of assess_risk
Assessed == result.op = "assess_risk"

\* the stored record k names the package asked for
NamesPackage(k) ==
    \E j \in 1..Len(vulns[k].affected_packages) :
       pkgHeap[vulns[k].affected_packages[j]].name = result.args[1]

\* the stored record k has an entry of the package that the version asked for
\* affects
VersionAffects(k) ==
    \E j \in 1..Len(vulns[k].affected_packages) :
       /\ pkgHeap[vulns[k].affected_packages[j]].name = result.args[1]
       /\ result.args[2][1] \in Range(pkgHeap[vulns[k].affected_packages[j]].affected_versions)

\* the records of the package, after the version filter when a version is given
Considered ==
    { k \in 1..Len(vulns) :
        NamesPackage(k) /\ (Truthy(result.args[2]) => VersionAffects(k)) }

HasScore(k) == Present(vulns[k].cvss_v3) \/ Present(vulns[k].cvss_v2)

ScoredSet == { k \in Considered : HasScore(k) }

RECURSIVE SumScores(_)
SumScores(S) ==
    IF S = {} THEN 0
    ELSE LET k == CHOOSE x \in S : TRUE
         IN VulnScore(vulns[k], cvssHeap) + SumScores(S \ {k})

\* C13: risk_score is the mean of the best-available score (v3, else v2) over
\* the scored vulnerabilities only; scores 9.0, 5.0 and none give 7.0 and high.
C13_MeanOverScored ==
    (Assessed /\ ScoredSet # {})
    => /\ result.value.risk_score = Round2(SumScores(ScoredSet), Cardinality(ScoredSet))
       /\ result.value.risk_level = RiskLevel(SumScores(ScoredSet), Cardinality(ScoredSet))

\* the reported level follows the reported score (in hundredths)
LevelOfScore ==
    /\ result.value.risk_level = "high" <=> result.value.risk_score >= 10 * HighScore
    /\ result.value.risk_level = "medium"
         <=> /\ result.value.risk_score >= 10 * MediumScore
             /\ result.value.risk_score < 10 * HighScore
    /\ result.value.risk_level = "low"
         <=> /\ result.value.risk_score > 0
             /\ result.value.risk_score < 10 * MediumScore

FirstLatest(S) ==
    CHOOSE k \in S :
       /\ Present(vulns[k].published_date)
       /\ \A i \in S : Present(vulns[i].published_date)
            => \/ vulns[i].published_date[1] < vulns[k].published_date[1]
               \/ (vulns[i].published_date[1] = vulns[k].published_date[1] /\ k <= i)

\* C15: latest_vulnerability is the id of the vulnerability with the latest
\* published_date, the first in input order on a tie, also when the first
\* record has no published_date and a later one has.
C15_LatestPublished ==
    (Assessed /\ \E k \in Considered : Present(vulns[k].published_date))
    => result.value.latest_vulnerability = Some(vulns[FirstLatest(Considered)].id)

\* C16: every vulnerability of the set is counted once, as fixed when the
\* entry of the named package has fixed versions and as active otherwise.
C16_CountedOnce ==
    Assessed
    => /\ result.value.fixed_vulnerabilities
            = Cardinality({ k \in Considered :
                              IsFixed(vulns[k], result.args[1], pkgHeap) })
       /\ result.value.active_vulnerabilities + result.value.fixed_vulnerabilities
            = Cardinality(Considered)

\* C17: the recommendation is a function of the risk level alone: two
\* assessments of the same level carry the same recommendation.
C17_RecommendationByLevel ==
    Assessed
    => \A package_name \in PkgNames, version \in RiskVersions :
          LET other == assess_risk(vulns, package_name, version, pkgHeap, cvssHeap)
          IN other.risk_level = result.value.risk_level
             => other.recommendation = result.value.recommendation

\* ----------------------------------- AnalyzerService.analyze_correlations
\* str.split(): the words of s
RECURSIVE Words(_)
Words(s) ==
    LET t == LStrip(s)
        n == WordLen(t)
    IN IF t = << >> THEN << >>
       ELSE <<SubSeq(t, 1, n)>> \o Words(SubSeq(t, n + 1, Len(t)))

\* analyzer.py 122: a description that is set and has more than 3 words
Usable(v) == Truthy(v.description) /\ Len(Words(v.description[1])) > 3

\* analyzer.py 120-123
RECURSIVE Descriptions(_)
Descriptions(vs) ==
    IF vs = << >> THEN << >>
    ELSE IF Usable(Head(vs))
    THEN <<Head(vs).description[1]>> \o Descriptions(Tail(vs))
    ELSE Descriptions(Tail(vs))

StopWords == { <<"t", "h", "e">> }

\* analyzer.py 43-47: the terms TfidfVectorizer(stop_words='english') keeps of
\* a document: words of two or more characters that are no stop words
Tokens(desc) ==
    SelectSeq(Words(desc), LAMBDA w : Len(w) >= 2 /\ w \notin StopWords)

\* analyzer.py 133: fit_transform raises ValueError (empty vocabulary) when no
\* document has a term
VectorizerRaises(descriptions) ==
    \A d \in 1..Len(descriptions) : Tokens(descriptions[d]) = << >>

\* analyzer.py 33: min_similarity = 0.8, similarities held in tenths
MinSimilarity == 8

\* a similarity below the threshold
LowSimilarity == 5

\* analyzer.py 133-134: the matrices cosine_similarity can return for the
\* documents: symmetric, 1.0 between documents of the same terms, 0.0 for a
\* document with no term, any value otherwise
SimilarityMatrices(descriptions) ==
    LET m == Len(descriptions)
        pairs == { p \in (1..m) \X (1..m) : p[1] < p[2] }
    IN { [i \in 1..m |-> [j \in 1..m |->
            IF Tokens(descriptions[i]) = << >> \/ Tokens(descriptions[j]) = << >>
            THEN 0
            ELSE IF Tokens(descriptions[i]) = Tokens(descriptions[j])
            THEN 10
            ELSE IF i < j THEN f[<<i, j>>] ELSE f[<<j, i>>]]] :
         f \in [pairs -> {LowSimilarity, MinSimilarity}] }

\* analyzer.py 144-147: the indices similar to i, in index order
RECURSIVE SimilarIndices(_, _, _, _)
SimilarIndices(i, j, m, similarity_matrix) ==
    IF j > m THEN << >>
    ELSE IF i # j /\ similarity_matrix[i][j] >= MinSimilarity
    THEN <<j>> \o SimilarIndices(i, j + 1, m, similarity_matrix)
    ELSE SimilarIndices(i, j + 1, m, similarity_matrix)

\* analyzer.py 139-154: the groups, each a list of description indices
RECURSIVE SimilarGroups(_, _, _, _, _)
SimilarGroups(i, m, similarity_matrix, used_indices, similar_groups) ==
    IF i > m THEN similar_groups
    ELSE IF i \in used_indices
    THEN SimilarGroups(i + 1, m, similarity_matrix, used_indices, similar_groups)
    ELSE LET similar_indices == SimilarIndices(i, 1, m, similarity_matrix)
         IN IF similar_indices # << >>
            THEN SimilarGroups(i + 1, m, similarity_matrix,
                               used_indices \cup {i} \cup Range(similar_indices),
                               Append(similar_groups, <<i>> \o similar_indices))
            ELSE SimilarGroups(i + 1, m, similarity_matrix, used_indices,
                               similar_groups)

\* analyzer.py 151 and 192-195: a group of description indices is read as
\* positions of vulns, and reported as their ids
GroupIds(vs, group) == [x \in 1..Len(group) |-> vs[group[x]].id]

\* a graph that never finds a node it holds
has_node_never(graph, node) == FALSE

has_node(graph, node) == \E x \in 1..Len(graph.nodes) : graph.nodes[x].id = node

add_node(graph, node, type) ==
    [graph EXCEPT !.nodes = Append(@, [id |-> node, type |-> type])]

add_edge(graph, u, v) ==
    [graph EXCEPT !.edges = Append(@, [source |-> u, target |-> v])]

\* analyzer.py 166-177: one package entry added to the graph
AddPackage(graph, pkg) ==
    LET g1 == IF ~has_node(graph, pkg.name)
              THEN add_node(graph, pkg.name, "package")
              ELSE graph
        g2 == IF Truthy(pkg.ecosystem) /\ ~has_node(g1, pkg.ecosystem[1])
              THEN add_edge(add_node(g1, pkg.ecosystem[1], "ecosystem"),
                            pkg.name, pkg.ecosystem[1])
              ELSE g1
    IN IF Truthy(pkg.platform) /\ ~has_node(g2, pkg.platform[1])
       THEN add_edge(add_node(g2, pkg.platform[1], "platform"),
                     pkg.name, pkg.platform[1])
       ELSE g2

RECURSIVE AddPackages(_, _, _)
AddPackages(graph, entries, pkgs) ==
    IF entries = << >> THEN graph
    ELSE AddPackages(AddPackage(graph, pkgs[Head(entries)]), Tail(entries), pkgs)

\* analyzer.py 160-177
RECURSIVE BuildGraph(_, _, _)
BuildGraph(graph, vs, pkgs) ==
    IF vs = << >> THEN graph
    ELSE BuildGraph(AddPackages(graph, Head(vs).affected_packages, pkgs),
                    Tail(vs), pkgs)

\* analyzer.py 185-188: graph.edges lists the edges node by node, in the
\* order of the nodes
RECURSIVE EdgesByNode(_, _)
EdgesByNode(nodes, edges) ==
    IF nodes = << >> THEN << >>
    ELSE SelectSeq(edges, LAMBDA e : e.source = Head(nodes).id)
         \o EdgesByNode(Tail(nodes), edges)

\* analyzer.py 101-197
analyze_correlations(vs, similarity_matrix, pkgs) ==
    LET descriptions == Descriptions(vs)
        groups == IF VectorizerRaises(descriptions) THEN << >>
                  ELSE SimilarGroups(1, Len(descriptions), similarity_matrix,
                                     {}, << >>)
        graph == BuildGraph([nodes |-> << >>, edges |-> << >>], vs, pkgs)
    IN IF descriptions = << >>
       THEN [similar_groups |-> << >>,
             package_graph |-> [nodes |-> << >>, edges |-> << >>]]
       ELSE [similar_groups |-> [g \in 1..Len(groups) |-> GroupIds(vs, groups[g])],
             package_graph |-> [nodes |-> graph.nodes,
                                edges |-> EdgesByNode(graph.nodes, graph.edges)]]

\* the caller asks for the correlations of the stored records
AnalyzeCorrelations ==
    \E similarity_matrix \in SimilarityMatrices(Descriptions(vulns)) :
       /\ result' = [op |-> "analyze_correlations", kind |-> "return", msg |-> "",
                     value |-> analyze_correlations(vulns, similarity_matrix,
                                                    pkgHeap),
                     similarity_matrix |-> similarity_matrix]
       /\ pc' = "analyzed"
       /\ UNCHANGED <<vulns, vulns0, pkgHeap, refHeap, cvssHeap, data, limiter>>

\* ------------------------------------------------- records to correlate
Digits == <<"1", "2", "3", "4", "5">>

\* a description of four words, different for every record
Text(k) == <<"w", Digits[k], " ", "a", "a", " ", "b", "b", " ", "c", "c">>

\* a description of three words
ShortText == <<"a", "a", " ", "b", "b", " ", "c", "c">>

\* a description of four stop words
StopText ==
    <<"t", "h", "e", " ", "t", "h", "e", " ", "t", "h", "e", " ", "t", "h", "e">>

\* kinds of description: none, too short, stop words only, usable
DescKinds == {"none", "short", "stop", "text"}

DescriptionOf(kind, k) ==
    CASE kind = "none" -> None
      [] kind = "short" -> Some(ShortText)
      [] kind = "stop" -> Some(StopText)
      [] OTHER -> Some(Text(k))

\* package entries with and without an ecosystem and a platform
CorrPackages ==
    { NewPackage(<<"a">>),
      [NewPackage(<<"a">>) EXCEPT !.ecosystem = Some(<<"e">>),
                                  !.platform = Some(<<"p">>)],
      [NewPackage(<<"b">>) EXCEPT !.ecosystem = Some(<<"e">>)],
      [NewPackage(<<"b">>) EXCEPT !.ecosystem = Some(<<"a">>),
                                  !.platform = Some(<<"p">>)] }

\* stored records with distinct ids
CorrRecords(kinds, pkgs) ==
    /\ vulns = [k \in 1..Len(kinds) |->
                  [NewVulnerability(VulnIds[k], SourceOf(k))
                      EXCEPT !.description = DescriptionOf(kinds[k], k),
                             !.affected_packages = ChildIds(k, Len(pkgs[k]))]]
    /\ pkgHeap = [id \in AllChildIds(pkgs) |-> pkgs[OwnerOf(id)][IndexOf(id)]]
    /\ refHeap = EmptyHeap /\ cvssHeap = EmptyHeap
    /\ Ready

\* records that differ in their descriptions, each with one package entry
InitCorrDescriptions ==
    \E n \in 0..MaxLen :
       \E kinds \in [1..n -> DescKinds] :
          CorrRecords(kinds,
                      [k \in 1..n |-> <<[NewPackage(<<"a">>)
                                           EXCEPT !.ecosystem = Some(<<"e">>)]>>])

\* one or two records that differ in their package entries
InitCorrPackages ==
    \E n \in 1..2 :
       \E kinds \in [1..n -> {"none", "stop", "text"}],
          pkgs \in [1..n -> SeqsUpTo(CorrPackages, MaxItems)] :
          CorrRecords(kinds, pkgs)

InitCorr ==
    \/ InitCorrDescriptions
    \/ InitCorrPackages

NextCorr == AnalyzeCorrelations

SpecCorr == InitCorr /\ [][NextCorr]_vars

\* ----------------------------------------- properties of analyze_correlations
Analyzed == result.op = "analyze_correlations"

\* C18: every record appears in at most one cluster.
C18_DisjointClusters ==
    Analyzed
    => \A g, h \in 1..Len(result.value.similar_groups) :
          (Range(result.value.similar_groups[g])
             \cap Range(result.value.similar_groups[h]) # {}) => g = h

\* the positions in vulns of the records whose descriptions were compared, in
\* the order of the compared descriptions
RECURSIVE UsablePositions(_)
UsablePositions(k) ==
    IF k > Len(vulns) THEN << >>
    ELSE IF Usable(vulns[k]) THEN <<k>> \o UsablePositions(k + 1)
    ELSE UsablePositions(k + 1)

\* the id of the record whose description is the d-th compared
ComparedId(d) == vulns[UsablePositions(1)[d]].id

\* the compared descriptions similar to the d-th
SimilarTo(d) ==
    { e \in 1..Len(UsablePositions(1)) :
        e # d /\ result.similarity_matrix[d][e] >= MinSimilarity }

\* the cluster is the record of the d-th description followed by exactly the
\* records similar to it
ClusterAround(group, d) ==
    /\ Len(group) >= 2
    /\ group[1] = ComparedId(d)
    /\ { group[x] : x \in 2..Len(group) } = { ComparedId(e) : e \in SimilarTo(d) }

\* C19: every cluster has at least two members, starts with its anchor and
\* holds exactly the anchor and the records similar to the anchor; a record
\* similar to no other is in no cluster; two similar records and an unrelated
\* third give exactly one cluster of two.
C19_AnchorAndSimilar ==
    Analyzed
    => /\ \A g \in 1..Len(result.value.similar_groups) :
             \E d \in 1..Len(UsablePositions(1)) :
                ClusterAround(result.value.similar_groups[g], d)
       /\ \A d \in 1..Len(UsablePositions(1)) :
             SimilarTo(d) = {}
             => \A g \in 1..Len(result.value.similar_groups) :
                   ComparedId(d) \notin Range(result.value.similar_groups[g])
       /\ (/\ Len(UsablePositions(1)) = 3
           /\ SimilarTo(1) = {2} /\ SimilarTo(2) = {1} /\ SimilarTo(3) = {})
          => result.value.similar_groups = <<<<ComparedId(1), ComparedId(2)>>>>

\* C20: with no usable description, or when the vectorizer raises, the call
\* returns an empty cluster list and a graph with no nodes and no edges.
C20_EmptyOnFailure ==
    (Analyzed /\ VectorizerRaises(Descriptions(vulns)))
    => /\ result.kind = "return"
       /\ result.value.similar_groups = << >>
       /\ result.value.package_graph = [nodes |-> << >>, edges |-> << >>]

\* the package entries of the stored records
PackageEntries ==
    UNION { { pkgHeap[vulns[k].affected_packages[j]] :
                j \in 1..Len(vulns[k].affected_packages) } :
            k \in 1..Len(vulns) }

\* the returned graph has an edge between the two nodes, in either direction
HasEdge(u, v) ==
    \E x \in 1..Len(result.value.package_graph.edges) :
       LET e == result.value.package_graph.edges[x]
       IN \/ (e.source = u /\ e.target = v)
          \/ (e.source = v /\ e.target = u)

\* C21: when the graph is built, every package with an ecosystem tag has an
\* edge to its ecosystem node, and every package with a platform tag has an
\* edge to its platform node, also when the ecosystem or platform is already
\* in the graph.
C21_EdgePerTag ==
    (Analyzed /\ Descriptions(vulns) # << >>)
    => \A pkg \in PackageEntries :
          /\ Truthy(pkg.ecosystem) => HasEdge(pkg.name, pkg.ecosystem[1])
          /\ Truthy(pkg.platform) => HasEdge(pkg.name, pkg.platform[1])

\* C22: the returned graph has every node id once, so with one kind tag, and
\* every undirected edge once.
C22_NoDuplicates ==
    Analyzed
    => LET nodes == result.value.package_graph.nodes
           edges == result.value.package_graph.edges
       IN /\ \A x, y \in 1..Len(nodes) : nodes[x].id = nodes[y].id => x = y
          /\ \A x, y \in 1..Len(edges) :
                (\/ edges[x] = edges[y]
                 \/ (/\ edges[x].source = edges[y].target
                     /\ edges[x].target = edges[y].source))
                => x = y

\* two stored records repeat a package with its ecosystem, and the graph has
\* been built with that edge
C22_Witness ==
    /\ Analyzed
    /\ Len(vulns) = 2
    /\ \E i \in 1..Len(vulns[1].affected_packages),
          j \in 1..Len(vulns[2].affected_packages) :
          /\ pkgHeap[vulns[1].affected_packages[i]]
               = pkgHeap[vulns[2].affected_packages[j]]
          /\ Truthy(pkgHeap[vulns[1].affected_packages[i]].ecosystem)
          /\ HasEdge(pkgHeap[vulns[1].affected_packages[i]].name,
                     pkgHeap[vulns[1].affected_packages[i]].ecosystem[1])
    /\ Len(result.value.package_graph.edges) >= 2

\* --------------------------------------- NVDData._extract_affected_packages
\* a dict is a record whose keys hold << >> when the key is absent and
\* << value >> when it is present

\* the index of the first sep in s at or after position i, 0 when there is none
RECURSIVE IndexFrom(_, _, _)
IndexFrom(s, sep, i) ==
    IF i > Len(s) THEN 0
    ELSE IF s[i] = sep THEN i ELSE IndexFrom(s, sep, i + 1)

\* str.split(sep)
RECURSIVE Split(_, _)
Split(s, sep) ==
    LET i == IndexFrom(s, sep, 1)
    IN IF i = 0 THEN <<s>>
       ELSE <<SubSeq(s, 1, i - 1)>> \o Split(SubSeq(s, i + 1, Len(s)), sep)

\* the position of the first package of that name, 0 when there is none
RECURSIVE FindPackage(_, _, _)
FindPackage(packages, pkg_name, i) ==
    IF i > Len(packages) THEN 0
    ELSE IF packages[i].name = pkg_name THEN i
    ELSE FindPackage(packages, pkg_name, i + 1)

\* nvd.py 147-187: one cpe_match of a node
ProcessCpeMatch(packages, cpe_match) ==
    LET cpe == IF Present(cpe_match.cpe23Uri) THEN cpe_match.cpe23Uri[1] ELSE << >>
        parts == Split(cpe, ":")
        version == IF Len(parts) > 5 THEN parts[6] ELSE <<"*">>
        pkg_name == parts[4] \o <<"/">> \o parts[5]
        found == FindPackage(packages, pkg_name, 1)
        with_pkg == IF found = 0
                    THEN Append(packages,
                                [NewPackage(pkg_name)
                                    EXCEPT !.ecosystem = Some(<<"c", "p", "e">>),
                                           !.platform = Some(parts[3])])
                    ELSE packages
        at == IF found = 0 THEN Len(with_pkg) ELSE found
        vulnerable == IF Present(cpe_match.vulnerable) THEN cpe_match.vulnerable[1]
                      ELSE TRUE
    IN IF cpe = << >> \/ Len(parts) < 5 THEN packages
       ELSE IF version # <<"*">>
       THEN [with_pkg EXCEPT ![at].versions =
                Append(@, [NewVersion(version) EXCEPT
                             !.status = IF vulnerable THEN "affected" ELSE "fixed"])]
       ELSE with_pkg

RECURSIVE ProcessCpeMatches(_, _)
ProcessCpeMatches(packages, cpe_matches) ==
    IF cpe_matches = << >> THEN packages
    ELSE ProcessCpeMatches(ProcessCpeMatch(packages, Head(cpe_matches)),
                           Tail(cpe_matches))

\* dict.get(key, []) of a list-valued key
GetList(opt) == IF Present(opt) THEN opt[1] ELSE << >>

\* nvd.py 145-190: process_node, the matches of the node and then its children
RECURSIVE process_node(_, _)
RECURSIVE ProcessNodes(_, _)
process_node(packages, node) ==
    ProcessNodes(ProcessCpeMatches(packages, GetList(node.cpeMatch)),
                 GetList(node.children))

ProcessNodes(packages, nodes) ==
    IF nodes = << >> THEN packages
    ELSE ProcessNodes(process_node(packages, Head(nodes)), Tail(nodes))

\* nvd.py 141-197
RECURSIVE ExtractConfigs(_, _)
ExtractConfigs(packages, configurations) ==
    IF configurations = << >> THEN packages
    ELSE ExtractConfigs(ProcessNodes(packages, GetList(Head(configurations).nodes)),
                        Tail(configurations))

_extract_affected_packages(configurations) == ExtractConfigs(<< >>, configurations)

\* ------------------------------------------- Component.process_component
\* source/model/entities.py 50: "All Versions"
AllVersions ==
    <<"A", "l", "l", " ", "V", "e", "r", "s", "i", "o", "n", "s">>

\* source/model/entities.py 38-70: the connector calls made for one cpe_match
ComponentCalls(cve_id, cpe_match) ==
    LET vulnerable == IF Present(cpe_match.vulnerable) THEN cpe_match.vulnerable[1]
                      ELSE TRUE
        cpe23Uri == cpe_match.criteria
        parts == Split(cpe23Uri[1], ":")
        version_str == IF parts[6] = <<"*">> THEN AllVersions ELSE parts[6]
    IN IF vulnerable /\ Truthy(cpe23Uri) /\ Len(parts) > 5
       THEN << [call |-> "create_component", cpe23Uri |-> cpe23Uri[1],
                vendor |-> parts[4], product |-> parts[5]],
               [call |-> "create_version", version |-> version_str,
                cpe23Uri |-> cpe23Uri[1]],
               [call |-> "create_relationship", cve_id |-> cve_id,
                cpe23Uri |-> cpe23Uri[1]] >>
       ELSE << >>

RECURSIVE ComponentCallsAll(_, _)
ComponentCallsAll(cve_id, cpe_matches) ==
    IF cpe_matches = << >> THEN << >>
    ELSE ComponentCalls(cve_id, Head(cpe_matches))
         \o ComponentCallsAll(cve_id, Tail(cpe_matches))

\* source/model/entities.py 35-36: the matches of the children, one level down
RECURSIVE ChildMatches(_)
ChildMatches(children) ==
    IF children = << >> THEN << >>
    ELSE GetList(Head(children).cpeMatch) \o ChildMatches(Tail(children))

\* source/model/entities.py 33-36: the matches looked at for a node
NodeMatches(node) ==
    IF GetList(node.cpeMatch) = << >> /\ Present(node.children)
    THEN ChildMatches(node.children[1])
    ELSE GetList(node.cpeMatch)

\* source/model/entities.py 33-36: the node afterwards; extend() writes into
\* the node's own cpeMatch list when the key is there
NodeAfter(node) ==
    IF Present(node.cpeMatch) THEN [node EXCEPT !.cpeMatch = Some(NodeMatches(node))]
    ELSE node

RECURSIVE NodesCalls(_, _)
NodesCalls(cve_id, nodes) ==
    IF nodes = << >> THEN << >>
    ELSE ComponentCallsAll(cve_id, NodeMatches(Head(nodes)))
         \o NodesCalls(cve_id, Tail(nodes))

\* source/model/entities.py 25-70: the connector calls, and the configurations
\* afterwards
RECURSIVE process_component(_, _)
process_component(cve_id, configurations) ==
    IF configurations = << >> THEN [calls |-> << >>, configurations |-> << >>]
    ELSE LET config == Head(configurations)
             rest == process_component(cve_id, Tail(configurations))
         IN IF Present(config.nodes)
            THEN [calls |-> NodesCalls(cve_id, config.nodes[1]) \o rest.calls,
                  configurations |->
                      <<[config EXCEPT !.nodes =
                            Some([x \in 1..Len(config.nodes[1]) |->
                                     NodeAfter(config.nodes[1][x])])]>>
                      \o rest.configurations]
            ELSE [calls |-> rest.calls,
                  configurations |-> <<config>> \o rest.configurations]

\* the caller builds the NVDData of the raw record and asks for its packages
ExtractAffectedPackages ==
    /\ Present(data)
    /\ Present(data[1].cve)
    /\ result' = [op |-> "_extract_affected_packages", kind |-> "return", msg |-> "",
                  value |-> _extract_affected_packages(
                                GetList(data[1].cve[1].configurations))]
    /\ pc' = "extracted"
    /\ UNCHANGED <<vulns, vulns0, pkgHeap, refHeap, cvssHeap, data, limiter>>

\* the caller hands the record's components to the graph connector
ProcessComponent ==
    /\ Present(data)
    /\ Present(data[1].cve)
    /\ LET cve == data[1].cve[1]
           r == process_component(IF Present(cve.id) THEN cve.id[1] ELSE "",
                                  GetList(cve.configurations))
       IN /\ result' = [op |-> "process_component", kind |-> "return", msg |-> "",
                        value |-> r.calls]
          /\ data' = IF Present(cve.configurations)
                     THEN Some([data[1] EXCEPT !.cve =
                                  Some([cve EXCEPT !.configurations =
                                          Some(r.configurations)])])
                     ELSE data
    /\ pc' = "processed"
    /\ UNCHANGED <<vulns, vulns0, pkgHeap, refHeap, cvssHeap, limiter>>

\* ------------------------------------------------- raw NVD records
\* str.join
RECURSIVE Join(_, _)
Join(parts, sep) ==
    IF parts = << >> THEN << >>
    ELSE IF Len(parts) = 1 THEN parts[1]
    ELSE parts[1] \o <<sep>> \o Join(Tail(parts), sep)

CpePrefix == << <<"c", "p", "e">>, <<"2", ".", "3">> >>

\* identifiers: with a version, with the wildcard, of another product, with
\* five segments, with four segments, and the empty string
CpeUris ==
    { Join(CpePrefix \o << <<"a">>, <<"v">>, <<"p">>, <<"1">>, <<"*">> >>, ":"),
      Join(CpePrefix \o << <<"a">>, <<"v">>, <<"p">>, <<"*">>, <<"*">> >>, ":"),
      Join(CpePrefix \o << <<"o">>, <<"v">>, <<"q">>, <<"2">>, <<"*">> >>, ":"),
      Join(CpePrefix \o << <<"h">>, <<"v">>, <<"r">> >>, ":"),
      Join(CpePrefix \o << <<"a">>, <<"v">> >>, ":"),
      << >> }

\* a cpeMatch entry that carries the identifier under both key names
NewCpeMatch(uri, vulnerable) ==
    [cpe23Uri |-> Some(uri), criteria |-> Some(uri), vulnerable |-> Some(vulnerable)]

CpeMatches == { NewCpeMatch(uri, vulnerable) : uri \in CpeUris, vulnerable \in BOOLEAN }

\* the 'cve' dict of a record with every key but configurations
NewCve(id) ==
    [id |-> id, published |-> Some(1), lastModified |-> Some(2),
     vulnStatus |-> Some("Analyzed"),
     descriptions |-> Some(<<[lang |-> Some("en"), value |-> Some(<<"x">>)]>>),
     metrics |-> Some([cvssMetricV31 |-> None, cvssMetricV30 |-> None,
                       cvssMetricV2 |-> None]),
     references |-> Some(<< >>),
     configurations |-> None]

\* a raw record that has the given configurations
ConfigRecord(configurations) ==
    /\ data = Some([cve |-> Some([NewCve(Some("CVE-1"))
                                    EXCEPT !.configurations = Some(configurations)])])
    /\ vulns = << >> /\ vulns0 = << >>
    /\ pkgHeap = EmptyHeap /\ refHeap = EmptyHeap /\ cvssHeap = EmptyHeap
    /\ limiter = << >>
    /\ pc = "ready"
    /\ result = [op |-> "none", kind |-> "none", msg |-> "", value |-> << >>]

\* one configuration node with any list of cpeMatch entries
InitCpeMatches ==
    \E cpe_matches \in SeqsUpTo(CpeMatches, MaxItems) :
       ConfigRecord(<<[nodes |-> Some(<<[cpeMatch |-> Some(cpe_matches),
                                         children |-> None]>>)]>>)

MaxDepth == 2

NodeLetters == <<"m", "n">>

\* the identifier of the node at that level of the i-th top node
UriAt(i, level) ==
    Join(CpePrefix \o << <<"a">>, <<"v">>, <<NodeLetters[i], Digits[level]>>,
                         <<"1">>, <<"*">> >>, ":")

\* nodes with no cpeMatch key, an empty list or one entry, and with no
\* children key, no child or one child, down to MaxDepth levels below the top
RECURSIVE ConfigNodes(_, _)
ConfigNodes(i, level) ==
    { [cpeMatch |-> m, children |-> c] :
        m \in {None, Some(<< >>), Some(<<NewCpeMatch(UriAt(i, level), TRUE)>>)},
        c \in {None, Some(<< >>)}
              \cup (IF level <= MaxDepth
                    THEN { Some(<<child>>) : child \in ConfigNodes(i, level + 1) }
                    ELSE {}) }

\* one configuration with one or two nested nodes
InitNestedNodes ==
    \E n \in 1..2 :
       \E nodes \in [1..n -> UNION { ConfigNodes(i, 1) : i \in 1..2 }] :
          /\ \A i \in 1..n : nodes[i] \in ConfigNodes(i, 1)
          /\ ConfigRecord(<<[nodes |-> Some(nodes)]>>)

InitCpe ==
    \/ InitCpeMatches
    \/ InitNestedNodes

NextCpe ==
    \/ ExtractAffectedPackages
    \/ ProcessComponent

SpecCpe == InitCpe /\ [][NextCpe]_vars

\* ------------------------------------------ properties of the CPE normalizers
Extracted == result.op = "_extract_affected_packages"

Processed == result.op = "process_component"

\* the cpeMatch entries of the nodes and of all their descendants, in
\* document order
RECURSIVE TreeMatches(_)
TreeMatches(nodes) ==
    IF nodes = << >> THEN << >>
    ELSE GetList(Head(nodes).cpeMatch)
         \o TreeMatches(GetList(Head(nodes).children))
         \o TreeMatches(Tail(nodes))

RECURSIVE ConfigMatches(_)
ConfigMatches(configurations) ==
    IF configurations = << >> THEN << >>
    ELSE TreeMatches(GetList(Head(configurations).nodes))
         \o ConfigMatches(Tail(configurations))

\* the cpeMatch entries of a raw record
RecordMatches(d) == ConfigMatches(GetList(d[1].cve[1].configurations))

CpeOf(cpe_match) == cpe_match.cpe23Uri[1]

Segments(cpe) == Split(cpe, ":")

\* "<vendor>/<product>"
NameOf(cpe) == Segments(cpe)[4] \o <<"/">> \o Segments(cpe)[5]

\* the version segment, the wildcard when there is none
VersionOf(cpe) == IF Len(Segments(cpe)) > 5 THEN Segments(cpe)[6] ELSE <<"*">>

\* the versions, wildcards left out, of the entries that name the package
RECURSIVE VersionsNamed(_, _)
VersionsNamed(cpe_matches, name) ==
    IF cpe_matches = << >> THEN << >>
    ELSE LET cpe == CpeOf(Head(cpe_matches))
             rest == VersionsNamed(Tail(cpe_matches), name)
         IN IF Len(Segments(cpe)) >= 5 /\ NameOf(cpe) = name /\ VersionOf(cpe) # <<"*">>
            THEN <<VersionOf(cpe)>> \o rest
            ELSE rest

\* the versions, wildcards left out, of the entries with that identifier
RECURSIVE VersionsOfCpe(_, _)
VersionsOfCpe(cpe_matches, cpe) ==
    IF cpe_matches = << >> THEN << >>
    ELSE LET rest == VersionsOfCpe(Tail(cpe_matches), cpe)
         IN IF CpeOf(Head(cpe_matches)) = cpe /\ VersionOf(cpe) # <<"*">>
            THEN <<VersionOf(cpe)>> \o rest
            ELSE rest

\* the packages of _extract_affected_packages are the decomposition of the
\* record's identifiers
PackagesDecomposed ==
    LET cpe_matches == RecordMatches(data)
        packages == result.value
    IN /\ { packages[x].name : x \in 1..Len(packages) }
            = { NameOf(CpeOf(cpe_matches[i])) :
                  i \in { j \in 1..Len(cpe_matches) :
                            Len(Segments(CpeOf(cpe_matches[j]))) >= 5 } }
       /\ \A x, y \in 1..Len(packages) : packages[x].name = packages[y].name => x = y
       /\ \A x \in 1..Len(packages) :
             /\ \E i \in 1..Len(cpe_matches) :
                   /\ Len(Segments(CpeOf(cpe_matches[i]))) >= 5
                   /\ NameOf(CpeOf(cpe_matches[i])) = packages[x].name
                   /\ packages[x].platform = Some(Segments(CpeOf(cpe_matches[i]))[3])
             /\ [v \in 1..Len(packages[x].versions) |-> packages[x].versions[v].version]
                  = VersionsNamed(cpe_matches, packages[x].name)

\* the connector calls of process_component are the decomposition of the
\* record's identifiers: a component for every identifier, a version for
\* every identifier whose version is no wildcard
ComponentsDecomposed ==
    LET cpe_matches == RecordMatches(data)
        calls == result.value
    IN \A i \in 1..Len(cpe_matches) :
          LET cpe == CpeOf(cpe_matches[i])
              created == SelectSeq(calls, LAMBDA c :
                            c.call = "create_version" /\ c.cpe23Uri = cpe)
          IN Len(Segments(cpe)) > 5
             => /\ \E x \in 1..Len(calls) :
                      /\ calls[x].call = "create_component"
                      /\ calls[x].vendor = Segments(cpe)[4]
                      /\ calls[x].product = Segments(cpe)[5]
                /\ [v \in 1..Len(created) |-> created[v].version]
                     = VersionsOfCpe(cpe_matches, cpe)

\* C23: an identifier cpe:2.3:<part>:<vendor>:<product>:<version>:... yields
\* the package <vendor>/<product> with platform <part> and one Version
\* <version>, no Version when <version> is the wildcard; an identifier of
\* fewer than 5 segments is skipped and the others are still processed.
C23_CpeDecomposition ==
    /\ Extracted => PackagesDecomposed
    /\ Processed => ComponentsDecomposed

\* the identifiers with a version segment of the vulnerable entries
Vulnerable(cpe_matches) ==
    { CpeOf(cpe_matches[i]) :
        i \in { j \in 1..Len(cpe_matches) :
                  /\ cpe_matches[j].vulnerable = Some(TRUE)
                  /\ Len(Segments(CpeOf(cpe_matches[j]))) > 5 } }

\* C24: the matches of every configuration node at every depth are collected,
\* whether or not the parent node has matches of its own, and the record's
\* configuration data is left as it was.
C24_AllDepthsCollected ==
    [][/\ result'.op = "_extract_affected_packages"
          => /\ { NameOf(cpe) : cpe \in Vulnerable(RecordMatches(data)) }
                  \subseteq { result'.value[x].name : x \in 1..Len(result'.value) }
             /\ data' = data
       /\ result'.op = "process_component"
          => /\ Vulnerable(RecordMatches(data))
                  \subseteq { result'.value[x].cpe23Uri : x \in 1..Len(result'.value) }
             /\ data' = data]_vars

\* ------------------------------------------------ NVD record normalizers
\* A date string is modelled by the day it denotes; NotIso is a string that
\* is not in ISO format, the empty string included.
NotIso == 0

\* data.get('cve', {}) of a record without the key: every key is absent
EmptyCve ==
    [id |-> None, published |-> None, lastModified |-> None, vulnStatus |-> None,
     descriptions |-> None, metrics |-> None, references |-> None,
     configurations |-> None]

\* cve.get('metrics', {}) of a record without the key
EmptyMetrics == [cvssMetricV31 |-> None, cvssMetricV30 |-> None, cvssMetricV2 |-> None]

GetCve(d) == IF d[1].cve = None THEN EmptyCve ELSE d[1].cve[1]

GetMetrics(cve) == IF cve.metrics = None THEN EmptyMetrics ELSE cve.metrics[1]

\* datetime.fromisoformat(cve.get(key)): TypeError for None, ValueError for
\* a string that is not in ISO format
fromisoformat(date_string) ==
    IF date_string = None THEN [kind |-> "raise", msg |-> "TypeError", value |-> NotIso]
    ELSE IF date_string[1] = NotIso
         THEN [kind |-> "raise", msg |-> "ValueError", value |-> NotIso]
         ELSE [kind |-> "return", msg |-> "", value |-> date_string[1]]

\* NVDData.from_dict (src/models/nvd.py)
from_dict(d) ==
    LET cve == GetCve(d)
        published == fromisoformat(cve.published)
        lastModified == fromisoformat(cve.lastModified)
    IN IF published.kind = "raise"
       THEN [kind |-> "raise", msg |-> published.msg, value |-> << >>]
       ELSE IF lastModified.kind = "raise"
       THEN [kind |-> "raise", msg |-> lastModified.msg, value |-> << >>]
       ELSE [kind |-> "return", msg |-> "",
             value |-> [id |-> cve.id,
                        published |-> published.value,
                        lastModified |-> lastModified.value,
                        vulnStatus |-> cve.vulnStatus,
                        descriptions |-> GetList(cve.descriptions),
                        metrics |-> GetMetrics(cve),
                        references |-> GetList(cve.references),
                        configurations |-> GetList(cve.configurations)]]

\* next((desc['value'] for desc in descriptions if desc.get('lang') == lang or
\* any), default): desc['value'] raises KeyError when the key is absent
RECURSIVE NextValue(_, _, _)
NextValue(descriptions, any, default) ==
    IF descriptions = << >> THEN [kind |-> "return", msg |-> "", value |-> default]
    ELSE IF any \/ Head(descriptions).lang = Some("en")
         THEN IF Head(descriptions).value = None
              THEN [kind |-> "raise", msg |-> "KeyError", value |-> None]
              ELSE [kind |-> "return", msg |-> "", value |-> Head(descriptions).value]
         ELSE NextValue(Tail(descriptions), any, default)

\* NVDData.to_vulnerability: the default of the outer next() is evaluated
\* first; the arguments of Vulnerability(...) are evaluated before the call,
\* and raw_data={'cve': data} names a variable that is neither a local of
\* to_vulnerability nor a global of the module, so the lookup raises NameError
\* and no Vulnerability is constructed.
to_vulnerability(self) ==
    LET first == NextValue(self.descriptions, TRUE, None)
        description == NextValue(self.descriptions, FALSE, first.value)
        affected_packages == _extract_affected_packages(self.configurations)
    IN IF first.kind = "raise"
       THEN [kind |-> "raise", msg |-> first.msg, value |-> << >>]
       ELSE IF description.kind = "raise"
       THEN [kind |-> "raise", msg |-> description.msg, value |-> << >>]
       ELSE [kind |-> "raise", msg |-> "NameError", value |-> << >>]

\* from_dict followed by to_vulnerability
Normalize ==
    /\ Present(data)
    /\ LET nvd == from_dict(data)
       IN result' = [op |-> "to_vulnerability",
                     kind |-> IF nvd.kind = "raise" THEN "raise"
                              ELSE to_vulnerability(nvd.value).kind,
                     msg |-> IF nvd.kind = "raise" THEN nvd.msg
                             ELSE to_vulnerability(nvd.value).msg,
                     value |-> << >>]
    /\ pc' = "normalized"
    /\ UNCHANGED <<vulns, vulns0, pkgHeap, refHeap, cvssHeap, data, limiter>>

\* next((desc.get('value', '') for desc in ... if desc.get('lang') == 'en'), '')
RECURSIVE EnglishValue(_)
EnglishValue(descriptions) ==
    IF descriptions = << >> THEN << >>
    ELSE IF Head(descriptions).lang = Some("en")
         THEN IF Head(descriptions).value = None THEN << >>
              ELSE Head(descriptions).value[1]
         ELSE EnglishValue(Tail(descriptions))

\* NVDData.from_json (source/model/NVD_OBJ.py)
from_json(d) ==
    LET cve_item == GetCve(d)
        description == EnglishValue(GetList(cve_item.descriptions))
        cvssMetricV31 == GetMetrics(cve_item).cvssMetricV31
        metrics == IF cvssMetricV31 = None THEN [cvssData |-> None]
                   ELSE cvssMetricV31[1][1]
        cvss_data == IF metrics.cvssData = None THEN [version |-> None, baseScore |-> None]
                     ELSE metrics.cvssData[1]
        refs == GetList(cve_item.references)
    IN IF cvssMetricV31 = Some(<< >>)
       THEN [kind |-> "raise", msg |-> "IndexError", value |-> << >>]
       ELSE [kind |-> "return", msg |-> "",
             value |-> [cve_id |-> IF cve_item.id = None THEN "" ELSE cve_item.id[1],
                        description |-> description,
                        published_date |-> IF cve_item.published = None THEN NotIso
                                           ELSE cve_item.published[1],
                        last_modified_date |-> IF cve_item.lastModified = None THEN NotIso
                                               ELSE cve_item.lastModified[1],
                        cvss_v3_base_score |-> IF cvss_data.baseScore = None THEN 0
                                               ELSE cvss_data.baseScore[1],
                        references |->
                            [i \in 1..Len(refs) |->
                               [url |-> IF refs[i].url = None THEN << >> ELSE refs[i].url[1],
                                tags |-> GetList(refs[i].tags)]],
                        configurations |-> GetList(cve_item.configurations)]]

FromJson ==
    /\ Present(data)
    /\ result' = [op |-> "from_json", kind |-> from_json(data).kind,
                  msg |-> from_json(data).msg, value |-> from_json(data).value]
    /\ pc' = "normalized"
    /\ UNCHANGED <<vulns, vulns0, pkgHeap, refHeap, cvssHeap, data, limiter>>

\* NVDCollector._extract_cvss_v3: {} is None
extract_cvss_v3(cve) ==
    LET metrics == GetMetrics(cve)
        cvss_v3 == IF GetList(metrics.cvssMetricV31) = << >>
                   THEN GetList(metrics.cvssMetricV30)
                   ELSE GetList(metrics.cvssMetricV31)
    IN IF cvss_v3 = << >> THEN None
       ELSE LET cvss_data == IF cvss_v3[1].cvssData = None
                             THEN [version |-> None, baseScore |-> None]
                             ELSE cvss_v3[1].cvssData[1]
            IN Some([version |-> cvss_data.version, base_score |-> cvss_data.baseScore])

\* NVDCollector._extract_cvss_v2
extract_cvss_v2(cve) ==
    LET cvss_v2 == GetList(GetMetrics(cve).cvssMetricV2)
    IN IF cvss_v2 = << >> THEN None
       ELSE LET cvss_data == IF cvss_v2[1].cvssData = None
                             THEN [version |-> None, baseScore |-> None]
                             ELSE cvss_v2[1].cvssData[1]
            IN Some([version |-> Some("2.0"), base_score |-> cvss_data.baseScore])

\* NVDCollector.clean_data: nothing in the try block raises on a dict, so the
\* except branch that returns the input is not taken
clean_data(d) ==
    LET cve == GetCve(d)
        descs == GetList(cve.descriptions)
        refs == GetList(cve.references)
    IN [source |-> "NVD",
        id |-> cve.id,
        published_date |-> cve.published,
        last_modified_date |-> cve.lastModified,
        vuln_status |-> cve.vulnStatus,
        descriptions |-> [i \in 1..Len(descs) |->
                            [lang |-> descs[i].lang, value |-> descs[i].value]],
        references |-> [i \in 1..Len(refs) |->
                          [url |-> refs[i].url, tags |-> GetList(refs[i].tags)]],
        metrics |-> [cvss_v3 |-> extract_cvss_v3(cve), cvss_v2 |-> extract_cvss_v2(cve)],
        configurations |-> GetList(cve.configurations),
        raw_data |-> d]

CleanData ==
    /\ Present(data)
    /\ result' = [op |-> "clean_data", kind |-> "return", msg |-> "",
                  value |-> clean_data(data)]
    /\ pc' = "normalized"
    /\ UNCHANGED <<vulns, vulns0, pkgHeap, refHeap, cvssHeap, data, limiter>>

\* ------------------------------------------------------- raw NVD records
RawIds == {None, Some("CVE-1")}

RawDates == {None, Some(NotIso), Some(1)}

RawDescriptions ==
    {None, Some(<< >>),
     Some(<<[lang |-> Some("en"), value |-> Some(<<"x">>)]>>),
     Some(<<[lang |-> Some("fr"), value |-> Some(<<"y">>)]>>),
     Some(<<[lang |-> Some("fr"), value |-> Some(<<"y">>)],
            [lang |-> Some("en"), value |-> Some(<<"x">>)]>>),
     Some(<<[lang |-> Some("en"), value |-> None]>>)}

RawMetrics ==
    {None} \cup
    { Some([EmptyMetrics EXCEPT !.cvssMetricV31 = v31]) :
        v31 \in {None, Some(<< >>),
                 Some(<<[cvssData |-> Some([version |-> Some("3.1"),
                                            baseScore |-> Some(75)])]>>)} }

RawReferences ==
    {None, Some(<< >>), Some(<<[url |-> Some(ExampleUrl), tags |-> None]>>)}

RawConfigurations ==
    {None,
     Some(<<[nodes |-> Some(<<[cpeMatch |-> Some(<<NewCpeMatch(UriAt(1, 1), TRUE)>>),
                               children |-> None]>>)]>>)}

RawCves ==
    { [id |-> id, published |-> published, lastModified |-> lastModified,
       vulnStatus |-> Some("Analyzed"), descriptions |-> descriptions,
       metrics |-> metrics, references |-> references,
       configurations |-> configurations] :
        id \in RawIds, published \in RawDates, lastModified \in {None, Some(2)},
        descriptions \in RawDescriptions, metrics \in RawMetrics,
        references \in RawReferences, configurations \in RawConfigurations }

\* a raw record with any of its keys absent
InitNvd ==
    /\ data \in {Some([cve |-> None])} \cup { Some([cve |-> Some(cve)]) : cve \in RawCves }
    /\ vulns = << >> /\ vulns0 = << >>
    /\ pkgHeap = EmptyHeap /\ refHeap = EmptyHeap /\ cvssHeap = EmptyHeap
    /\ limiter = << >>
    /\ pc = "ready"
    /\ result = [op |-> "none", kind |-> "none", msg |-> "", value |-> << >>]

NextNvd == Normalize \/ FromJson \/ CleanData

SpecNvd == InitNvd /\ [][NextNvd]_vars

\* ------------------------------------------ properties of the normalizers
Normalized == result.op \in {"to_vulnerability", "from_json", "clean_data"}

HasId(d) == GetCve(d).id # None

\* C25: normalizing a raw record that has no identifier fails (with a
\* malformed-record error): no object with an empty, null or synthesized id
\* is returned.
C25_MalformedRecord ==
    Normalized /\ ~HasId(data) => result.kind = "raise"

\* the from_json value that has the documented default for every absent key
DefaultsFilled(d, nvd) ==
    LET cve == GetCve(d)
    IN /\ nvd.cve_id = cve.id[1]
       /\ cve.descriptions = None => nvd.description = << >>
       /\ cve.published = None => nvd.published_date = NotIso
       /\ cve.lastModified = None => nvd.last_modified_date = NotIso
       /\ cve.metrics = None => nvd.cvss_v3_base_score = 0
       /\ cve.references = None => nvd.references = << >>
       /\ cve.configurations = None => nvd.configurations = << >>

\* C26: for every raw record that has an identifier, normalization returns
\* one object and does not fail, whichever optional fields are absent; every
\* absent field becomes its default.
C26_AbsentFieldsDefault ==
    result.op \in {"to_vulnerability", "from_json"} /\ HasId(data)
    => /\ result.kind = "return"
       /\ result.op = "from_json" => DefaultsFilled(data, result.value)

\* -------------------------------------------------- Patch.is_likely_patch
patch_keywords ==
    << <<"p", "a", "t", "c", "h">>, <<"f", "i", "x">>,
       <<"u", "p", "d", "a", "t", "e">>, <<"r", "e", "s", "o", "l", "v", "e">>,
       <<"m", "i", "t", "i", "g", "a", "t", "e">> >>

\* sub in s
Contains(s, sub) ==
    \E i \in 1..(Len(s) - Len(sub) + 1) : SubSeq(s, i, i + Len(sub) - 1) = sub

PatchTag == <<"P", "a", "t", "c", "h">>

\* Patch.is_likely_patch (source/model/entities.py)
is_likely_patch(url, tags) ==
    LET url_lower == Lower(url)
    IN \/ \E k \in 1..Len(patch_keywords) : Contains(url_lower, patch_keywords[k])
       \/ PatchTag \in Range(tags)

\* is_likely_patch called on the url and the tags of the reference
IsLikelyPatch ==
    /\ Present(data)
    /\ result' = [op |-> "is_likely_patch", kind |-> "return", msg |-> "",
                  value |-> is_likely_patch(data[1].url, data[1].tags)]
    /\ pc' = "classified"
    /\ UNCHANGED <<vulns, vulns0, pkgHeap, refHeap, cvssHeap, data, limiter>>

\* reference URLs: one without keyword, one for every keyword, one keyword in
\* upper case
PatchUrlValues ==
    {<<"h", "/", "a">>,
     <<"h", "/", "p", "a", "t", "c", "h">>,
     <<"h", "/", "F", "i", "x">>,
     <<"h", "/", "f", "i", "x", "e", "s">>,
     <<"h", "/", "u", "p", "d", "a", "t", "e">>,
     <<"h", "/", "r", "e", "s", "o", "l", "v", "e">>,
     <<"h", "/", "m", "i", "t", "i", "g", "a", "t", "e">>}

TagValues ==
    {PatchTag,
     <<"p", "a", "t", "c", "h">>,
     <<"V", "e", "n", "d", "o", "r", " ", "F", "i", "x">>,
     <<"V", "e", "n", "d", "o", "r">>}

\* a reference of a record: its url and its tags
InitPatch ==
    /\ \E url \in PatchUrlValues, tags \in SeqsUpTo(TagValues, MaxItems) :
          data = Some([url |-> url, tags |-> tags])
    /\ vulns = << >> /\ vulns0 = << >>
    /\ pkgHeap = EmptyHeap /\ refHeap = EmptyHeap /\ cvssHeap = EmptyHeap
    /\ limiter = << >>
    /\ pc = "ready"
    /\ result = [op |-> "none", kind |-> "none", msg |-> "", value |-> << >>]

NextPatch == IsLikelyPatch

SpecPatch == InitPatch /\ [][NextPatch]_vars

\* the text contains one of the keywords, whatever the case
HasKeyword(text) ==
    \E k \in 1..Len(patch_keywords) : Contains(Lower(text), patch_keywords[k])

\* C27: is_likely_patch(url, tags) is true exactly when the URL or any tag
\* contains, case-insensitively, one of patch, fix, update, resolve, mitigate,
\* or the tags hold the explicit "Patch".
C27_PatchByUrlOrTag ==
    result.op = "is_likely_patch"
    => (result.value <=> \/ HasKeyword(data[1].url)
                         \/ \E t \in 1..Len(data[1].tags) : HasKeyword(data[1].tags[t])
                         \/ PatchTag \in Range(data[1].tags))

\* --------------------------------------------- CleanerService.clean_all
\* The stored rows are modelled by their ids, in the order get_vulnerabilities
\* returns them. What clean_vulnerability, merge_vulnerabilities and
\* update_vulnerability do to a record is modelled by the actions above; here
\* each call returns or raises, as the scenario says: clean_raises holds the
\* rows clean_vulnerability raises on, update_raises the ids
\* update_vulnerability raises on, get_raises tells whether get_vulnerabilities
\* raises.
NewStats == [total |-> 0, cleaned |-> 0, merged |-> 0, failed |-> 0]

\* a failure that is logged and not counted
CountFailedNot(stats) == stats

\* line 249: stats['failed'] += 1
CountFailed(stats) == [stats EXCEPT !.failed = @ + 1]

\* lines 225-227: the ids in the order of their first row
RECURSIVE GroupKeys(_, _)
GroupKeys(ids, seen) ==
    IF ids = << >> THEN << >>
    ELSE IF Head(ids) \in seen THEN GroupKeys(Tail(ids), seen)
         ELSE <<Head(ids)>> \o GroupKeys(Tail(ids), seen \cup {Head(ids)})

\* the rows of the group of an id
GroupRows(ids, vuln_id) == { i \in 1..Len(ids) : ids[i] = vuln_id }

\* lines 231-249: one turn of the loop over the groups; acc holds the stats
\* and the calls of update_vulnerability made so far
CleanGroup(acc, scenario, vuln_id) ==
    LET group == GroupRows(scenario.ids, vuln_id)
        size == Cardinality(group)
    IN IF group \cap scenario.clean_raises # {}
       THEN [acc EXCEPT !.stats = CountFailed(acc.stats)]
       ELSE LET stats == [acc.stats EXCEPT
                             !.cleaned = @ + size,
                             !.merged = IF size > 1 THEN @ + 1 ELSE @]
                call == [id |-> vuln_id, records |-> size,
                         raised |-> vuln_id \in scenario.update_raises]
            IN [stats |-> IF call.raised THEN CountFailed(stats) ELSE stats,
                calls |-> Append(acc.calls, call)]

RECURSIVE CleanGroups(_, _, _)
CleanGroups(acc, scenario, keys) ==
    IF keys = << >> THEN acc
    ELSE CleanGroups(CleanGroup(acc, scenario, Head(keys)), scenario, Tail(keys))

\* CleanerService.clean_all
clean_all(scenario) ==
    IF scenario.get_raises
    THEN [kind |-> "raise", msg |-> "Exception",
          value |-> [stats |-> NewStats, calls |-> << >>]]
    ELSE [kind |-> "return", msg |-> "",
          value |-> CleanGroups([stats |-> [NewStats EXCEPT !.total = Len(scenario.ids)],
                                 calls |-> << >>],
                                scenario, GroupKeys(scenario.ids, {}))]

\* the caller runs clean_all()
CleanAll ==
    /\ Present(data)
    /\ pc = "ready"
    /\ result' = [op |-> "clean_all", kind |-> clean_all(data[1]).kind,
                  msg |-> clean_all(data[1]).msg, value |-> clean_all(data[1]).value]
    /\ pc' = "done"
    /\ UNCHANGED <<vulns, vulns0, pkgHeap, refHeap, cvssHeap, data, limiter>>

MaxRecords == 3

StoredIds == {"CVE-1", "CVE-2", "CVE-3"}

\* the stored rows and the calls that raise
InitStored ==
    /\ \E ids \in SeqsUpTo(StoredIds, MaxRecords) :
       \E clean_raises \in SUBSET (1..Len(ids)),
          update_raises \in SUBSET Range(ids),
          get_raises \in BOOLEAN :
             data = Some([ids |-> ids, clean_raises |-> clean_raises,
                          update_raises |-> update_raises, get_raises |-> get_raises])
    /\ vulns = << >> /\ vulns0 = << >>
    /\ pkgHeap = EmptyHeap /\ refHeap = EmptyHeap /\ cvssHeap = EmptyHeap
    /\ limiter = << >>
    /\ pc = "ready"
    /\ result = [op |-> "none", kind |-> "none", msg |-> "", value |-> << >>]

NextAll == CleanAll

SpecAll == InitStored /\ [][NextAll]_vars

\* ------------------------------------------------ properties of clean_all
\* the ids whose group fails: cleaning one of its rows raises, or persisting
\* the group raises
FailingIds(scenario) ==
    { id \in Range(scenario.ids) :
        \/ GroupRows(scenario.ids, id) \cap scenario.clean_raises # {}
        \/ id \in scenario.update_raises }

\* the calls of update_vulnerability for an id
CallsFor(calls, id) == { c \in 1..Len(calls) : calls[c].id = id }

\* C28: when a group fails while get_vulnerabilities returned, clean_all
\* returns the stats, failed counts every failing group once, every other
\* group is handed to update_vulnerability exactly once with all its rows, no
\* group is handed over twice, and failed plus persisted groups is the number
\* of distinct ids.
C28_FailureIsolation ==
    result.op = "clean_all" /\ ~data[1].get_raises
    => LET scenario == data[1]
           stats == result.value.stats
           calls == result.value.calls
           persisted == { c \in 1..Len(calls) : ~calls[c].raised }
       IN /\ result.kind = "return"
          /\ stats.failed = Cardinality(FailingIds(scenario))
          /\ \A id \in Range(scenario.ids) \ FailingIds(scenario) :
                /\ Cardinality(CallsFor(calls, id)) = 1
                /\ \A c \in CallsFor(calls, id) :
                      /\ ~calls[c].raised
                      /\ calls[c].records = Cardinality(GroupRows(scenario.ids, id))
          /\ \A id \in Range(scenario.ids) : Cardinality(CallsFor(calls, id)) <= 1
          /\ stats.failed + Cardinality(persisted) = Cardinality(Range(scenario.ids))

\* a group whose cleaning raises, a group whose persisting raises and a third
\* group that is persisted
C28_Witness ==
    /\ result.op = "clean_all"
    /\ result.kind = "return"
    /\ result.value.stats.failed = 2
    /\ data[1].clean_raises # {}
    /\ data[1].update_raises # {}
    /\ \E c \in 1..Len(result.value.calls) : ~result.value.calls[c].raised

\* -------------------------------------- the records named by the clusters
\* C29: every identifier in a cluster is the id of a record whose description
\* was compared: no record with an absent or short description is in a
\* cluster, and the members are records whose description has similarity at
\* least the threshold to the description of the anchor.
C29_ComparedRecords ==
    Analyzed
    => \A g \in 1..Len(result.value.similar_groups) :
          LET group == result.value.similar_groups[g]
          IN /\ \A x \in 1..Len(group) : \A k \in 1..Len(vulns) :
                   vulns[k].id = group[x] => Usable(vulns[k])
             /\ \E d \in 1..Len(UsablePositions(1)) :
                   /\ group[1] = ComparedId(d)
                   /\ \A x \in 2..Len(group) :
                         \E e \in 1..Len(UsablePositions(1)) :
                            /\ result.similarity_matrix[d][e] >= MinSimilarity
                            /\ group[x] = ComparedId(e)

\* ------------------------------------------------------------ RateLimiter
\* Time is counted in whole seconds. limiter holds the RateLimiter object
\* (self), the clock datetime.now() reads, the tasks that call acquire() with
\* the local `now` of a task suspended in asyncio.sleep and the time its sleep
\* ends, and the times at which calls of acquire() returned.
MaxCalls == 2

MaxPeriod == 2

MaxTasks == 2

MaxClock == 4

MaxAcquires == 4

Tasks == 1..MaxTasks

\* RateLimiter.__init__
NewRateLimiter(calls, period) ==
    [calls |-> calls, period |-> period, timestamps |-> << >>]

\* lines 49-50: the timestamps younger than the period
Fresh(timestamps, now, period) ==
    SelectSeq(timestamps, LAMBDA ts : now - ts < period)

\* the calls of acquire() begun so far
Begun ==
    Len(limiter[1].completed)
    + Cardinality({ t \in Tasks : limiter[1].tasks[t].pc = "sleeping" })

\* lines 46-61 up to the await: an idle task calls acquire(); it returns at
\* once, after appending now, unless the limit is reached and the wait is
\* positive, then it is suspended in asyncio.sleep(wait_time)
AcquireStart(t) ==
    /\ limiter # << >>
    /\ limiter[1].tasks[t].pc = "idle"
    /\ Begun < MaxAcquires
    /\ LET self == limiter[1].self
           now == limiter[1].clock
           timestamps == Fresh(self.timestamps, now, self.period)
           wait_time == IF Len(timestamps) >= self.calls
                        THEN timestamps[1] + self.period - now
                        ELSE 0
       IN limiter' =
            IF Len(timestamps) >= self.calls /\ wait_time > 0
            THEN <<[limiter[1] EXCEPT
                      !.self.timestamps = timestamps,
                      !.tasks[t] = [pc |-> "sleeping", now |-> now,
                                    wake |-> now + wait_time]]>>
            ELSE <<[limiter[1] EXCEPT
                      !.self.timestamps = Append(timestamps, now),
                      !.completed = Append(@, now)]>>
    /\ UNCHANGED <<vulns, vulns0, pkgHeap, refHeap, cvssHeap, data, pc, result>>

\* line 61 after the await: the sleep is over, the task appends the `now` it
\* read before sleeping to the list self.timestamps names at that moment, and
\* acquire() returns
AcquireResume(t) ==
    /\ limiter # << >>
    /\ limiter[1].tasks[t].pc = "sleeping"
    /\ limiter[1].clock >= limiter[1].tasks[t].wake
    /\ limiter' = <<[limiter[1] EXCEPT
                       !.self.timestamps = Append(@, limiter[1].tasks[t].now),
                       !.tasks[t] = [pc |-> "idle", now |-> 0, wake |-> 0],
                       !.completed = Append(@, limiter[1].clock)]>>
    /\ UNCHANGED <<vulns, vulns0, pkgHeap, refHeap, cvssHeap, data, pc, result>>

\* a second passes
Tick ==
    /\ limiter # << >>
    /\ limiter[1].clock < MaxClock
    /\ limiter' = <<[limiter[1] EXCEPT !.clock = @ + 1]>>
    /\ UNCHANGED <<vulns, vulns0, pkgHeap, refHeap, cvssHeap, data, pc, result>>

\* RateLimiter(calls, period) before the first acquire()
InitLimiter ==
    /\ \E calls \in 1..MaxCalls, period \in 1..MaxPeriod :
          limiter = <<[self |-> NewRateLimiter(calls, period),
                       clock |-> 0,
                       tasks |-> [t \in Tasks |-> [pc |-> "idle", now |-> 0, wake |-> 0]],
                       completed |-> << >>]>>
    /\ vulns = << >> /\ vulns0 = << >>
    /\ pkgHeap = EmptyHeap /\ refHeap = EmptyHeap /\ cvssHeap = EmptyHeap
    /\ data = << >>
    /\ pc = "ready"
    /\ result = [op |-> "none", kind |-> "none", msg |-> "", value |-> << >>]

NextLimiter ==
    \/ \E t \in Tasks : AcquireStart(t)
    \/ \E t \in Tasks : AcquireResume(t)
    \/ Tick

SpecLimiter == InitLimiter /\ [][NextLimiter]_vars

\* the calls of acquire() that returned in the window of length period that
\* begins at time t
CompletedIn(t) ==
    { i \in 1..Len(limiter[1].completed) :
        /\ t <= limiter[1].completed[i]
        /\ limiter[1].completed[i] < t + limiter[1].self.period }

\* C30: after any sequence of acquire() calls, sequential or interleaved
\* between tasks, at most `calls` acquisitions complete within any window of
\* length `period`.
C30_AtMostCallsPerPeriod ==
    limiter # << >>
    => \A t \in 0..MaxClock : Cardinality(CompletedIn(t)) <= limiter[1].self.calls

====
